---- MODULE Spec2Model ----
(***************************************************************************)
(* Key hierarchy, manifest storage and key rotation of an Ark (ark-core).  *)
(*                                                                         *)
(* The network holds the helm register, the data register, the data        *)
(* keyring scratchpad and one manifest scratchpad per Helm key.  One       *)
(* mutating operation of a Core runs at a time; every network call is a    *)
(* step of its own and may fail.  An observer reads the network between    *)
(* any two steps.                                                          *)
(***************************************************************************)
EXTENDS Integers, Sequences, FiniteSets, TLC

\* ------------------------------------------------------------------ bounds
MaxHelmRotations == 2
MaxDataRotations == 2
MaxWorkerRotations == 1
MaxPadCounter == 3
MaxRecipients == 3
MaxLocalCounter == 2
MaxStoreCounter == 3
MaxHistory == 3
MaxCalls == 3
MaxTasks == 3
MaxFetches == 2
MaxClock == 2
MaxUpdates == 3
MaxVaults == 1
MaxPointerCounter == 1
MaxTaskId == 2
MaxChannel == 1
MaxEvents == 3

\* --------------------------------------------------------------- constants
\* u64::MAX, written as the largest integer the checker represents
EOL_COUNTER == 2147483647
\* u32::MAX of a pointer counter, written the same way
POINTER_EOL_COUNTER == 2147483647
EOL_ENCODING == "u64::MAX"
TOMBSTONE_VALUE == [kind |-> "RIP"]
MANIFEST_SCRATCHPAD_ENCODING == "344850175421548714"
DATA_KEYRING_SCRATCHPAD_ENCODING == "845573457394578892"
TAG == "blsttc"

VARIABLES
    helmReg,      \* helm register: history of HelmKeySeed values, last = current
    dataReg,      \* data register: history of DataKeySeed values, last = current
    keyring,      \* data keyring scratchpad (owner ArkSeed / data/keyring)
    manifests,    \* manifest scratchpads, by the Helm key seed that owns them
    ageFirstAnswerWins, \* how the age crate walks the header stanzas (see age_decrypt)
    op,           \* operation in flight or last finished
    pc,           \* position of the operation
    loc,          \* its local variables
    receipt,      \* the Receipt handed to the operation by with_receipt
    paid,         \* writes the network accepted (and charged) during the operation
    result,       \* "none" while running, then "ok" / "err"
    created,      \* Ark creation has returned Ok
    ageCase,      \* input of the stand-alone encrypt / decrypt exercise
    ageResult,    \* its outcome
    objKind,      \* storage exercise: the kind of object at the one address used
    net,          \* storage exercise: the object the network holds there
    netAcceptsEqual, \* whether the network takes a put whose counter equals the stored one
    cache,        \* storage exercise: each Core's cache entry for the address
    call,         \* storage exercise: each Core's call in flight or last finished
    calls,        \* storage exercise: the number of calls made so far
    ringCase,     \* input and outcome of the stand-alone KeyRing exercise
    lookup,       \* concurrent lookups of one Core: each task's lookup
    fetch,        \* concurrent lookups of one Core: the upstream fetches
    manifestCase, \* a Manifest in memory and the last update_worker call on it
    vaultPointers, \* the vault keys whose Ark pointer exists on the network
    workerReg,    \* the worker register of worker_key.rs: its history of seeds
    vaultCase,    \* a third party's ark_from_vault_address and the pointer it reads
    progressCase  \* a Task tree, its event channel, its reporter and the snapshot

vars == <<helmReg, dataReg, keyring, manifests, ageFirstAnswerWins, op, pc, loc,
          receipt, paid, result, created, ageCase, ageResult,
          objKind, net, netAcceptsEqual, cache, call, calls, ringCase,
          lookup, fetch, manifestCase, vaultPointers, workerReg,
          vaultCase, progressCase>>

netVars == <<helmReg, dataReg, keyring, manifests>>
ageVars == <<ageCase, ageResult>>
storeVars == <<objKind, net, netAcceptsEqual, cache, call, calls>>
lookupVars == <<lookup, fetch>>
caseVars == <<vaultCase, progressCase>>
otherVars == <<storeVars, ringCase, lookupVars, manifestCase, vaultPointers, workerReg,
               caseVars>>

\* -------------------------------------------------------------------- keys
ArkSeed == <<"ark", 0>>
OtherSeed == <<"ark", 1>>

ArkSeed_helm_key(seed) == <<"helm", seed>>
ArkSeed_data_key(seed) == <<"data", seed>>
WorkerKey(id) == <<"worker", id>>

\* TypedSecretKey::public_key
public_key(sk) == <<"pk", sk[1], sk[2]>>

ArkAddress == public_key(ArkSeed)

HelmSeeds == 1..(MaxHelmRotations + 1)

Last(s) == s[Len(s)]

\* ------------------------------------------------------------- scratchpads
NoPad == [counter |-> 0, data_encoding |-> "none", content |-> [kind |-> "none"]]

\* ScratchpadExt::is_mutable
is_mutable(pad) == pad.counter < EOL_COUNTER

\* ScratchpadExt::is_retired
is_retired(pad) ==
    /\ pad.data_encoding = EOL_ENCODING
    /\ ~is_mutable(pad)
    /\ pad.content = TOMBSTONE_VALUE

\* TypedOwnedScratchpad::new : a local pad always starts at counter 1
TypedOwnedScratchpad_new(value, encoding) ==
    [counter |-> 1, data_encoding |-> encoding, content |-> value]

\* TypedOwnedScratchpad::is_equivalent
is_equivalent(pad, other) ==
    /\ pad.counter = other.counter
    /\ pad.data_encoding = other.data_encoding
    /\ pad.content = other.content

\* TypedOwnedScratchpad::retire (the checks look at the local pad only)
retire_NoTombstone(pad) == [ok |-> TRUE, pad |-> pad]
retire(pad) ==
    IF is_retired(pad) \/ ~is_mutable(pad)
    THEN [ok |-> FALSE, pad |-> pad]
    ELSE [ok |-> TRUE,
          pad |-> [counter |-> EOL_COUNTER, data_encoding |-> EOL_ENCODING,
                   content |-> TOMBSTONE_VALUE]]

\* Core::update_scratchpad up to the network write: the outcome is an error,
\* "nothing to send", or the pad to put.
update_scratchpad_NoSync(pad, existing) ==
    IF existing = NoPad THEN [kind |-> "err", pad |-> pad]
    ELSE IF is_retired(existing) THEN [kind |-> "err", pad |-> pad]
    ELSE IF ~is_mutable(existing) THEN [kind |-> "err", pad |-> pad]
    ELSE IF is_equivalent(pad, existing) THEN [kind |-> "same", pad |-> existing]
    ELSE [kind |-> "put",
          pad |-> IF existing.counter >= pad.counter
                  THEN [pad EXCEPT !.counter = existing.counter + 1]
                  ELSE pad]
update_scratchpad(pad, existing) ==
    IF existing = NoPad THEN [kind |-> "err", pad |-> pad]
    ELSE IF is_retired(existing) THEN [kind |-> "err", pad |-> pad]
    ELSE IF ~is_mutable(existing) THEN [kind |-> "err", pad |-> pad]
    ELSE LET p1 == IF existing.counter > pad.counter
                   THEN [pad EXCEPT !.counter = existing.counter] ELSE pad
         IN  IF is_equivalent(p1, existing) THEN [kind |-> "same", pad |-> existing]
             ELSE [kind |-> "put",
                   pad |-> IF existing.counter >= p1.counter
                           THEN [p1 EXCEPT !.counter = existing.counter + 1]
                           ELSE p1]

\* ---------------------------------------------------------------- receipts
\* `let (attos, _) = res?; receipt.add(attos);` : a line item only for a
\* write the network accepted
receipt_add_BeforeCheck(rcpt, ok, item) == Append(rcpt, item)
receipt_add(rcpt, ok, item) == IF ok THEN Append(rcpt, item) ELSE rcpt

\* -------------------------------------------------------------- encryption
\* A ciphertext records what was encrypted, for whom, and the randomness of
\* the encryption (two encryptions never give the same bytes).

\* DefaultEncryptionScheme::encrypt : single recipient, BLS
default_encrypt(plain, pk, nonce) ==
    [kind |-> "bls", plain |-> plain, rcpt |-> pk, nonce |-> nonce]

\* DefaultEncryptionScheme::decrypt
default_decrypt(ct, sk) ==
    IF ct.kind = "bls" /\ ct.rcpt = public_key(sk) THEN "Ok" ELSE "DecryptionFailed"

\* Recipient::wrap_file_key for MyPublicKey : one stanza per recipient
wrap_file_key(pk) == [tag |-> TAG, arg |-> pk, body |-> pk]

\* the stanza the age crate appends after the recipients' stanzas
GreaseStanza == [tag |-> "grease", arg |-> <<"pk", "none", 0>>, body |-> <<"pk", "none", 0>>]

\* AgeEncryptionScheme::encrypt : the recipients in the order of PublicKeys::iter
age_encrypt(plain, pks, nonce) ==
    [kind |-> "age", plain |-> plain,
     stanzas |-> [i \in 1..Len(pks) |-> wrap_file_key(pks[i])] \o <<GreaseStanza>>,
     nonce |-> nonce]

\* Identity::unwrap_stanza for MySecretKey
unwrap_stanza(sk, stanza) ==
    IF stanza.tag # TAG THEN "None"
    ELSE IF stanza.arg # public_key(sk) THEN "NoMatchingKeys"
    ELSE IF stanza.body # public_key(sk) THEN "DecryptionFailed"
    ELSE "Ok"

RECURSIVE FirstAnswer(_, _, _)
FirstAnswer(sk, stanzas, i) ==
    IF i > Len(stanzas) THEN "NoMatchingKeys"
    ELSE IF unwrap_stanza(sk, stanzas[i]) # "None" THEN unwrap_stanza(sk, stanzas[i])
    ELSE FirstAnswer(sk, stanzas, i + 1)

AnyOk(sk, stanzas) ==
    IF \E i \in 1..Len(stanzas) : unwrap_stanza(sk, stanzas[i]) = "Ok"
    THEN "Ok"
    ELSE FirstAnswer(sk, stanzas, 1)

\* AgeEncryptionScheme::decrypt = age::decrypt with the one identity.  The
\* age crate hands the header stanzas to unwrap_stanza; it either takes the
\* first stanza that answers (Some(..), an error included) or goes on to a
\* stanza that unwraps.  The crate is not part of the repository: both are
\* admitted, fixed per build.
age_decrypt(ct, sk, firstAnswerWins) ==
    IF ct.kind # "age" THEN "DecryptionFailed"
    ELSE IF firstAnswerWins THEN FirstAnswer(sk, ct.stanzas, 1)
    ELSE AnyOk(sk, ct.stanzas)

\* ---------------------------------------------------------------- manifest
\* Manifest::new
Manifest_new(authorized_worker) ==
    [kind |-> "manifest", authorized_worker |-> authorized_worker,
     retired_workers |-> <<>>, vaults |-> <<>>]

\* Utc::now() : the wall clock, which may stand still or step back between
\* two readings
Times == 1..MaxClock

\* RetiredKey::new
RetiredKey_new(inner, retired_at) == [inner |-> inner, retired_at |-> retired_at]

\* Ord for RetiredKey : retired_at alone decides the order
RetiredKey_cmp(a, b) ==
    IF a.retired_at < b.retired_at THEN "Less"
    ELSE IF a.retired_at > b.retired_at THEN "Greater"
    ELSE "Equal"

\* BTreeSet::insert : the set in its order; a value that compares Equal to one
\* of the set is not inserted and the set stays as it is
BTreeSet_insert(set, value) ==
    IF \E i \in 1..Len(set) : RetiredKey_cmp(set[i], value) = "Equal"
    THEN set
    ELSE LET below == {i \in 1..Len(set) : RetiredKey_cmp(set[i], value) = "Less"}
             k == Cardinality(below)
         IN SubSeq(set, 1, k) \o <<value>> \o SubSeq(set, k + 1, Len(set))

\* Manifest::update_worker
update_worker(m, new_worker, now) ==
    IF m.authorized_worker = new_worker
    THEN m
    ELSE [m EXCEPT !.authorized_worker = new_worker,
                   !.retired_workers =
                       BTreeSet_insert(@, RetiredKey_new(m.authorized_worker, now))]

\* ManifestEncryptor::new
ManifestEncryptor_new_NoSealKey(ark, helm, worker, seal) ==
    [ark_address |-> ark, public_helm_key |-> helm,
     public_worker_key |-> worker, seal_key |-> helm]
ManifestEncryptor_new(ark, helm, worker, seal) ==
    [ark_address |-> ark, public_helm_key |-> helm,
     public_worker_key |-> worker, seal_key |-> seal]

\* PublicKeys::iter for ManifestEncryptor (encryptor! macro): field order
ManifestEncryptor_iter_NoArkAddress(e) ==
    <<e.public_helm_key, e.public_worker_key, e.seal_key>>
ManifestEncryptor_iter(e) ==
    <<e.ark_address, e.public_helm_key, e.public_worker_key, e.seal_key>>

\* ManifestEncryptor::encrypt_manifest
encrypt_manifest(e, m, nonce) == age_encrypt(m, ManifestEncryptor_iter(e), nonce)

\* the randomness of an encryption whose result is written to the pad `old`
FreshNonce_Reused(old) == IF old = NoPad THEN 1 ELSE old.content.nonce
FreshNonce(old) == IF old = NoPad THEN 1 ELSE old.content.nonce + 1


\* ------------------------------------------------------------------- reads
\* Core::public_helm_key : ark_address.helm_key(read_register(helm register))
public_helm_key == public_key(ArkSeed_helm_key(Last(helmReg)))

\* Core::seal_key : ark_address.seal_key(read_register(data register))
seal_key_Initial == public_key(ArkSeed_data_key(dataReg[1]))
seal_key == public_key(ArkSeed_data_key(Last(dataReg)))

\* PlaintextScratchpad::try_from_scratchpad followed by the age decryption of
\* Core::get_specific_manifest; the manifest address is that of the Helm key
\* derived from `helmSeed`
get_specific_manifest(decryptor, helmSeed) ==
    LET pad == manifests[helmSeed] IN
    IF pad = NoPad THEN [res |-> "NotFound", manifest |-> Manifest_new(ArkAddress)]
    ELSE IF is_retired(pad) THEN [res |-> "Retired", manifest |-> Manifest_new(ArkAddress)]
    ELSE IF pad.data_encoding # MANIFEST_SCRATCHPAD_ENCODING
         THEN [res |-> "BadEncoding", manifest |-> Manifest_new(ArkAddress)]
    ELSE [res |-> age_decrypt(pad.content, decryptor, ageFirstAnswerWins),
          manifest |-> pad.content.plain]

\* Core::get_manifest : the address comes from the current helm register value
get_manifest_WithoutHistory(decryptor) ==
    IF helmReg = <<>> THEN [res |-> "NotFound", manifest |-> Manifest_new(ArkAddress)]
    ELSE [get_specific_manifest(decryptor, Last(helmReg)) EXCEPT
              !.manifest.retired_workers = <<>>]
get_manifest(decryptor) ==
    IF helmReg = <<>> THEN [res |-> "NotFound", manifest |-> Manifest_new(ArkAddress)]
    ELSE get_specific_manifest(decryptor, Last(helmReg))

\* Core::public_worker_key(decryptor) : the authorized worker of the live manifest
public_worker_key(decryptor) ==
    [res |-> get_manifest(decryptor).res,
     key |-> get_manifest(decryptor).manifest.authorized_worker]

\* Core::manifest_encryptor
manifest_encryptor_FirstSealKey(decryptor) ==
    [res |-> IF helmReg = <<>> \/ dataReg = <<>> THEN "NotFound"
             ELSE public_worker_key(decryptor).res,
     enc |-> ManifestEncryptor_new(ArkAddress,
                 IF helmReg = <<>> THEN ArkAddress ELSE public_helm_key,
                 public_worker_key(decryptor).key,
                 public_key(ArkSeed_data_key(1)))]
manifest_encryptor(decryptor) ==
    [res |-> IF helmReg = <<>> \/ dataReg = <<>> THEN "NotFound"
             ELSE public_worker_key(decryptor).res,
     enc |-> ManifestEncryptor_new(ArkAddress,
                 IF helmReg = <<>> THEN ArkAddress ELSE public_helm_key,
                 public_worker_key(decryptor).key,
                 IF dataReg = <<>> THEN ArkAddress ELSE seal_key)]

\* FromIterator for KeyRing : a map from each key's public key to the key
KeyRing_from_iter_DropsFirst(keys) == {keys[i] : i \in 2..Len(keys)}
KeyRing_from_iter(keys) == {keys[i] : i \in 1..Len(keys)}

\* Core::derive_data_keyring : one Data secret key per value of the register history
derive_data_keyring_CurrentOnly(ark_seed) == {ArkSeed_data_key(Last(dataReg))}
derive_data_keyring(ark_seed) ==
    KeyRing_from_iter([i \in 1..Len(dataReg) |-> ArkSeed_data_key(dataReg[i])])

\* Core::verify_ark_seed
verify_ark_seed_AnySeed(ark_seed) == TRUE
verify_ark_seed(ark_seed) == ArkAddress = public_key(ark_seed)

\* ------------------------------------------------------------ control flow
NoKey == <<"pk", "none", 0>>

LocInit ==
    [seed |-> ArkSeed, manifest |-> Manifest_new(NoKey),
     enc |-> ManifestEncryptor_new(NoKey, NoKey, NoKey, NoKey),
     prevHelm |-> 0, helm |-> 0, newData |-> 0, worker |-> "generate",
     failedAt |-> "none", vault |-> 0, active |-> TRUE,
     request |-> [active |-> "None", bridge |-> "None", name |-> "None",
                  description |-> "None"]]

Fail(at) ==
    /\ result' = "err"
    /\ pc' = "idle"
    /\ loc' = [loc EXCEPT !.failedAt = at]

Done ==
    /\ result' = "ok"
    /\ pc' = "idle"

\* rotate_all_keys : Helm, then Worker, then Data
AfterSubRotation_DataBeforeWorker(o, sub) ==
    IF o # "all" THEN "done"
    ELSE IF sub = "helm" THEN "d_read"
    ELSE IF sub = "data" THEN "w_update"
    ELSE "done"
AfterSubRotation(o, sub) ==
    IF o # "all" THEN "done"
    ELSE IF sub = "helm" THEN "w_update"
    ELSE IF sub = "worker" THEN "d_read"
    ELSE "done"

\* _rotate_helm_key : update the register, create the new manifest, retire
\* the previous one
HelmStepAfter_RetireFirst(step) ==
    IF step = "h_update_reg" THEN "h_retire"
    ELSE IF step = "h_retire" THEN "h_create"
    ELSE "end"
HelmStepAfter(step) ==
    IF step = "h_update_reg" THEN "h_create"
    ELSE IF step = "h_create" THEN "h_retire"
    ELSE "end"

FirstStep(o) ==
    IF o = "data" THEN "d_read"
    ELSE IF o = "worker" THEN "w_update"
    ELSE "h_read"

SubDone(sub) ==
    IF AfterSubRotation(op, sub) = "done"
    THEN Done
    ELSE /\ pc' = AfterSubRotation(op, sub)
         /\ result' = result

HelmStepDone(step) ==
    IF HelmStepAfter(step) = "end"
    THEN SubDone("helm")
    ELSE /\ pc' = HelmStepAfter(step)
         /\ result' = result

\* ---------------------------------------------------------------- creation
\* ark.rs create, one step per network write

StartCreate ==
    /\ pc = "idle" /\ op = "none"
    /\ op' = "create" /\ pc' = "c_helm_reg"
    /\ receipt' = <<>> /\ paid' = <<>> /\ result' = "none" /\ loc' = LocInit
    /\ UNCHANGED <<netVars, ageFirstAnswerWins, created, ageVars, otherVars>>

\* create_register(OwnedHelmRegister::new_derived)
CreateHelmRegister ==
    /\ pc = "c_helm_reg"
    /\ \E ok \in BOOLEAN :
        /\ receipt' = receipt_add(receipt, ok /\ helmReg = <<>>, "helm_register")
        /\ IF ok /\ helmReg = <<>>
           THEN /\ helmReg' = <<1>>
                /\ paid' = Append(paid, "helm_register")
                /\ pc' = "c_data_reg"
                /\ UNCHANGED <<result, loc>>
           ELSE /\ Fail("c_helm_reg")
                /\ UNCHANGED <<helmReg, paid>>
    /\ UNCHANGED <<dataReg, keyring, manifests, ageFirstAnswerWins, op, created, ageVars, otherVars>>

\* create_register(OwnedDataRegister::new_derived)
CreateDataRegister ==
    /\ pc = "c_data_reg"
    /\ \E ok \in BOOLEAN :
        /\ receipt' = receipt_add(receipt, ok /\ dataReg = <<>>, "data_register")
        /\ IF ok /\ dataReg = <<>>
           THEN /\ dataReg' = <<1>>
                /\ paid' = Append(paid, "data_register")
                /\ pc' = "c_keyring"
                /\ UNCHANGED <<result, loc>>
           ELSE /\ Fail("c_data_reg")
                /\ UNCHANGED <<dataReg, paid>>
    /\ UNCHANGED <<helmReg, keyring, manifests, ageFirstAnswerWins, op, created, ageVars, otherVars>>

\* create_encrypted_scratchpad(ark_seed.data_keyring(encrypt_data_keyring(..)))
CreateKeyring ==
    /\ pc = "c_keyring"
    /\ \E ok \in BOOLEAN :
        /\ receipt' = receipt_add(receipt, ok /\ keyring = NoPad, "data_keyring")
        /\ IF ok /\ keyring = NoPad
           THEN /\ keyring' = TypedOwnedScratchpad_new(
                       default_encrypt([kind |-> "keyring",
                                        keys |-> derive_data_keyring(ArkSeed)],
                                       seal_key, FreshNonce(keyring)),
                       DATA_KEYRING_SCRATCHPAD_ENCODING)
                /\ paid' = Append(paid, "data_keyring")
                /\ pc' = "c_manifest"
                /\ UNCHANGED <<result, loc>>
           ELSE /\ Fail("c_keyring")
                /\ UNCHANGED <<keyring, paid>>
    /\ UNCHANGED <<helmReg, dataReg, manifests, ageFirstAnswerWins, op, created, ageVars, otherVars>>

\* create_manifest(Manifest::new(..), helm_key, ManifestEncryptor::new(..))
CreateManifest ==
    /\ pc = "c_manifest"
    /\ \E ok \in BOOLEAN :
        LET h == Last(helmReg)
            put == ok /\ manifests[h] = NoPad
            worker == public_key(WorkerKey(1))
            enc == ManifestEncryptor_new(ArkAddress, public_helm_key, worker, seal_key)
        IN
        /\ receipt' = receipt_add(receipt, put, "manifest_create")
        /\ IF put
           THEN /\ manifests' = [manifests EXCEPT ![h] =
                       TypedOwnedScratchpad_new(
                           encrypt_manifest(enc, Manifest_new(worker), FreshNonce(manifests[h])),
                           MANIFEST_SCRATCHPAD_ENCODING)]
                /\ paid' = Append(paid, "manifest_create")
                /\ created' = TRUE
                /\ Done
                /\ UNCHANGED loc
           ELSE /\ Fail("c_manifest")
                /\ UNCHANGED <<manifests, paid, created>>
    /\ UNCHANGED <<helmReg, dataReg, keyring, ageFirstAnswerWins, op, ageVars, otherVars>>


\* --------------------------------------------------------------- rotations
WorkerInputs == {"generate", "current"}

\* the manifest scratchpad at the address of the current Helm key
CurrentManifestPad == manifests[Last(helmReg)]

\* the Worker keys the Ark has gone through: WorkerKey(1) is the first one
\* and every rotation takes the next
WorkerRotationCount ==
    IF CurrentManifestPad.content.kind = "age"
    THEN CurrentManifestPad.content.plain.authorized_worker[3] - 1
    ELSE 0

\* rotate_data_key / rotate_helm_key / rotate_worker_key / rotate_all_keys :
\* with_receipt hands a fresh Receipt to the operation
Start(kind, seed, worker) ==
    /\ pc = "idle" /\ created
    /\ kind \in {"data", "all"} => Len(dataReg) <= MaxDataRotations
    /\ kind \in {"helm", "all"} => Len(helmReg) <= MaxHelmRotations
    /\ kind \in {"data", "worker"} => CurrentManifestPad.counter < MaxPadCounter
    /\ (kind \in {"worker", "all"} /\ worker = "generate")
           => WorkerRotationCount < MaxWorkerRotations
    /\ kind \in {"data", "helm"} => worker = "generate"
    /\ kind = "worker" => seed = ArkSeed
    /\ op' = kind
    /\ receipt' = <<>> /\ paid' = <<>>
    /\ loc' = [LocInit EXCEPT !.seed = seed, !.worker = worker,
                              !.helm = Last(helmReg),
                              !.failedAt = IF kind = "all" /\ ~verify_ark_seed(seed)
                                           THEN "verify" ELSE "none"]
    /\ IF kind = "all" /\ ~verify_ark_seed(seed)
       THEN result' = "err" /\ pc' = "idle"
       ELSE result' = "none" /\ pc' = FirstStep(kind)
    /\ UNCHANGED <<netVars, ageFirstAnswerWins, created, ageVars, otherVars>>

\* _rotate_data_key : verify_ark_seed, get_register
DataRead ==
    /\ pc = "d_read"
    /\ \E ok \in BOOLEAN :
        IF ~verify_ark_seed(loc.seed) THEN Fail("verify")
        ELSE IF ~ok \/ dataReg = <<>> THEN Fail("d_read")
        ELSE /\ pc' = "d_update_reg"
             /\ loc' = [loc EXCEPT !.newData = Len(dataReg) + 1]
             /\ UNCHANGED result
    /\ UNCHANGED <<netVars, ageFirstAnswerWins, op, receipt, paid, created, ageVars, otherVars>>

\* _rotate_data_key : data_register.update(DataKeySeed::random()); update_register
DataUpdateRegister ==
    /\ pc = "d_update_reg"
    /\ \E ok \in BOOLEAN :
        /\ receipt' = receipt_add(receipt, ok, "data_register")
        /\ IF ok
           THEN /\ dataReg' = Append(dataReg, loc.newData)
                /\ paid' = Append(paid, "data_register")
                /\ pc' = "d_keyring"
                /\ UNCHANGED <<result, loc>>
           ELSE /\ Fail("d_update_reg")
                /\ UNCHANGED <<dataReg, paid>>
    /\ UNCHANGED <<helmReg, keyring, manifests, ageFirstAnswerWins, op, created, ageVars, otherVars>>

\* _rotate_data_key : update_scratchpad(ark_seed.data_keyring(
\*     new_data_key.public_key().encrypt_data_keyring(derive_data_keyring(ark_seed))))
DataUpdateKeyring ==
    /\ pc = "d_keyring"
    /\ \E ok \in BOOLEAN :
        LET pad == TypedOwnedScratchpad_new(
                       default_encrypt([kind |-> "keyring",
                                        keys |-> derive_data_keyring(loc.seed)],
                                       public_key(ArkSeed_data_key(loc.newData)),
                                       FreshNonce(keyring)),
                       DATA_KEYRING_SCRATCHPAD_ENCODING)
            u == update_scratchpad(pad, keyring)
            put == ok /\ u.kind = "put"
        IN
        /\ receipt' = receipt_add(receipt, put, "data_keyring")
        /\ IF put
           THEN /\ keyring' = u.pad
                /\ paid' = Append(paid, "data_keyring")
                /\ pc' = "d_manifest"
                /\ UNCHANGED <<result, loc>>
           ELSE IF ok /\ u.kind = "same"
           THEN /\ pc' = "d_manifest"
                /\ UNCHANGED <<keyring, paid, result, loc>>
           ELSE /\ Fail("d_keyring")
                /\ UNCHANGED <<keyring, paid>>
    /\ UNCHANGED <<helmReg, dataReg, manifests, ageFirstAnswerWins, op, created, ageVars, otherVars>>

\* _rotate_data_key : get_manifest(ark_seed); helm_key(ark_seed); update_manifest
DataUpdateManifest ==
    /\ pc = "d_manifest"
    /\ \E ok \in BOOLEAN :
        LET h == Last(helmReg)
            helm_key == ArkSeed_helm_key(h)
            m == get_manifest(loc.seed)
            e == manifest_encryptor(helm_key)
            readable == m.res = "Ok" /\ e.res = "Ok"
            pad == TypedOwnedScratchpad_new(
                       encrypt_manifest(e.enc, m.manifest, FreshNonce(manifests[h])),
                       MANIFEST_SCRATCHPAD_ENCODING)
            u == update_scratchpad(pad, manifests[h])
            put == ok /\ readable /\ u.kind = "put"
        IN
        /\ receipt' = receipt_add(receipt, put, "manifest_update")
        /\ IF put
           THEN /\ manifests' = [manifests EXCEPT ![h] = u.pad]
                /\ paid' = Append(paid, "manifest_update")
                /\ SubDone("data")
                /\ UNCHANGED loc
           ELSE IF ok /\ readable /\ u.kind = "same"
           THEN /\ SubDone("data")
                /\ UNCHANGED <<manifests, paid, loc>>
           ELSE /\ Fail("d_manifest")
                /\ UNCHANGED <<manifests, paid>>
    /\ UNCHANGED <<helmReg, dataReg, keyring, ageFirstAnswerWins, op, created, ageVars, otherVars>>

\* _rotate_helm_key : verify_ark_seed, helm_key, get_manifest(previous_helm_key),
\* manifest_encryptor(previous_helm_key), HelmKeySeed::random()
HelmRead ==
    /\ pc = "h_read"
    /\ \E ok \in BOOLEAN :
        LET previous_helm_key == ArkSeed_helm_key(Last(helmReg))
            m == get_manifest(previous_helm_key)
            e == manifest_encryptor(previous_helm_key)
        IN
        IF ~verify_ark_seed(loc.seed) THEN Fail("verify")
        ELSE IF ~ok \/ m.res # "Ok" \/ e.res # "Ok" THEN Fail("h_read")
        ELSE /\ pc' = "h_update_reg"
             /\ loc' = [loc EXCEPT !.manifest = m.manifest, !.enc = e.enc,
                                   !.prevHelm = Last(helmReg),
                                   !.helm = Len(helmReg) + 1]
             /\ UNCHANGED result
    /\ UNCHANGED <<netVars, ageFirstAnswerWins, op, receipt, paid, created, ageVars, otherVars>>

\* _rotate_helm_key : helm_register.update(new_helm_key_seed); update_register;
\* manifest_encryptor.public_helm_key = new_helm_key.public_key()
HelmUpdateRegister ==
    /\ pc = "h_update_reg"
    /\ \E ok \in BOOLEAN :
        /\ receipt' = receipt_add(receipt, ok, "helm_register")
        /\ IF ok
           THEN /\ helmReg' = Append(helmReg, loc.helm)
                /\ paid' = Append(paid, "helm_register")
                /\ HelmStepDone("h_update_reg")
                /\ loc' = [loc EXCEPT !.enc.public_helm_key =
                                          public_key(ArkSeed_helm_key(loc.helm))]
           ELSE /\ Fail("h_update_reg")
                /\ UNCHANGED <<helmReg, paid>>
    /\ UNCHANGED <<dataReg, keyring, manifests, ageFirstAnswerWins, op, created, ageVars, otherVars>>

\* _rotate_helm_key : create_manifest(manifest, new_helm_key, manifest_encryptor)
HelmCreateManifest ==
    /\ pc = "h_create"
    /\ \E ok \in BOOLEAN :
        LET put == ok /\ manifests[loc.helm] = NoPad IN
        /\ receipt' = receipt_add(receipt, put, "manifest_create")
        /\ IF put
           THEN /\ manifests' = [manifests EXCEPT ![loc.helm] =
                       TypedOwnedScratchpad_new(
                           encrypt_manifest(loc.enc, loc.manifest,
                                            FreshNonce(manifests[loc.helm])),
                           MANIFEST_SCRATCHPAD_ENCODING)]
                /\ paid' = Append(paid, "manifest_create")
                /\ HelmStepDone("h_create")
                /\ UNCHANGED loc
           ELSE /\ Fail("h_create")
                /\ UNCHANGED <<manifests, paid>>
    /\ UNCHANGED <<helmReg, dataReg, keyring, ageFirstAnswerWins, op, created, ageVars, otherVars>>

\* retire_manifest : refuses while helm_key is the current one
retire_manifest_allowed_Always(helm_seed) == TRUE
retire_manifest_allowed(helm_seed) ==
    public_helm_key # public_key(ArkSeed_helm_key(helm_seed))

\* _rotate_helm_key : retire_manifest(previous_helm_key)
HelmRetire ==
    /\ pc = "h_retire"
    /\ \E ok \in BOOLEAN :
        LET r == retire(TypedOwnedScratchpad_new(manifests[loc.prevHelm].content,
                                                 MANIFEST_SCRATCHPAD_ENCODING))
            put == ok /\ retire_manifest_allowed(loc.prevHelm) /\ r.ok
        IN
        /\ receipt' = receipt_add(receipt, put, "manifest_retire")
        /\ IF put
           THEN /\ manifests' = [manifests EXCEPT ![loc.prevHelm] = r.pad]
                /\ paid' = Append(paid, "manifest_retire")
                /\ HelmStepDone("h_retire")
                /\ UNCHANGED loc
           ELSE /\ Fail("h_retire")
                /\ UNCHANGED <<manifests, paid>>
    /\ UNCHANGED <<helmReg, dataReg, keyring, ageFirstAnswerWins, op, created, ageVars, otherVars>>

\* _rotate_worker_key(helm_key, new_worker_key, receipt, task) : read the
\* manifest, update_worker, re-encrypt with the new worker as recipient,
\* update the manifest scratchpad
WorkerUpdate ==
    /\ pc = "w_update"
    /\ \E ok \in BOOLEAN, now \in Times :
        LET helm_key == ArkSeed_helm_key(loc.helm)
            m == get_manifest(helm_key)
            e == manifest_encryptor(helm_key)
            readable == m.res = "Ok" /\ e.res = "Ok"
                        /\ public_helm_key = public_key(helm_key)
            new_worker == IF loc.worker = "current"
                          THEN m.manifest.authorized_worker
                          ELSE public_key(WorkerKey(m.manifest.authorized_worker[3] + 1))
            enc == [e.enc EXCEPT !.public_worker_key = new_worker]
            pad == TypedOwnedScratchpad_new(
                       encrypt_manifest(enc, update_worker(m.manifest, new_worker, now),
                                        FreshNonce(manifests[loc.helm])),
                       MANIFEST_SCRATCHPAD_ENCODING)
            u == update_scratchpad(pad, manifests[loc.helm])
            put == ok /\ readable /\ u.kind = "put"
        IN
        /\ receipt' = receipt_add(receipt, put, "manifest_update")
        /\ IF put
           THEN /\ manifests' = [manifests EXCEPT ![loc.helm] = u.pad]
                /\ paid' = Append(paid, "manifest_update")
                /\ SubDone("worker")
                /\ UNCHANGED loc
           ELSE IF ok /\ readable /\ u.kind = "same"
           THEN /\ SubDone("worker")
                /\ UNCHANGED <<manifests, paid, loc>>
           ELSE /\ Fail("w_update")
                /\ UNCHANGED <<manifests, paid>>
    /\ UNCHANGED <<helmReg, dataReg, keyring, ageFirstAnswerWins, op, created, ageVars, otherVars>>

\* --------------------------------------------- Manifest on its own
\* a Manifest in memory on which update_worker is called again and again
ManifestNone ==
    [calls |-> 0, before |-> Manifest_new(NoKey), after |-> Manifest_new(NoKey),
     new_worker |-> NoKey, now |-> 0]

ManifestIdle == manifestCase = ManifestNone

\* manifest.update_worker(&new_worker)
UpdateWorkerCall(new_worker, now) ==
    /\ manifestCase.calls < MaxUpdates
    /\ manifestCase' =
           [calls |-> manifestCase.calls + 1,
            before |-> manifestCase.after,
            after |-> update_worker(manifestCase.after, new_worker, now),
            new_worker |-> new_worker, now |-> now]

\* Core::verify_helm_key
verify_helm_key_AnyKey(helm_seed) == TRUE
verify_helm_key(helm_seed) ==
    public_helm_key = public_key(ArkSeed_helm_key(helm_seed))

\* Core::update_manifest(manifest, helm_key, receipt) : verify_helm_key,
\* manifest_encryptor(helm_key), update_scratchpad; `ok` is whether the put
\* gets through
update_manifest(manifest, h, ok) ==
    LET helm_key == ArkSeed_helm_key(h)
        e == manifest_encryptor(helm_key)
        pad == TypedOwnedScratchpad_new(
                   encrypt_manifest(e.enc, manifest, FreshNonce(manifests[h])),
                   MANIFEST_SCRATCHPAD_ENCODING)
        u == update_scratchpad(pad, manifests[h])
        failed == IF ~verify_helm_key(h) THEN "verify_helm"
                  ELSE IF e.res # "Ok" THEN "encryptor"
                  ELSE IF ~ok \/ u.kind = "err" THEN "manifest_update"
                  ELSE "none"
    IN [failed |-> failed, put |-> failed = "none" /\ u.kind = "put", pad |-> u.pad]

\* update_manifest called by the holder of a Helm key the Ark has issued with
\* the manifest it read at that key's address
UpdateManifest(h) ==
    /\ pc = "idle" /\ created
    /\ h \in 1..Len(helmReg)
    /\ manifests[h].content.kind = "age"
    /\ manifests[h].counter < MaxPadCounter
    /\ \E ok \in BOOLEAN :
        LET u == update_manifest(manifests[h].content.plain, h, ok) IN
        /\ receipt' = receipt_add(<<>>, u.put, "manifest_update")
        /\ paid' = IF u.put THEN <<"manifest_update">> ELSE <<>>
        /\ manifests' = IF u.put THEN [manifests EXCEPT ![h] = u.pad] ELSE manifests
        /\ result' = IF u.failed = "none" THEN "ok" ELSE "err"
        /\ loc' = [LocInit EXCEPT !.helm = h, !.failedAt = u.failed]
    /\ op' = "update_manifest"
    /\ UNCHANGED <<helmReg, dataReg, keyring, ageFirstAnswerWins, pc, created,
                   ageVars, otherVars>>

\* Core::retire_manifest(helm_key, receipt), called by the holder of a Helm
\* key the Ark has issued
RetireManifest(h) ==
    /\ pc = "idle" /\ created
    /\ h \in 1..Len(helmReg)
    /\ \E ok \in BOOLEAN :
        LET r == retire(TypedOwnedScratchpad_new(manifests[h].content,
                                                 MANIFEST_SCRATCHPAD_ENCODING))
            failed == IF ~retire_manifest_allowed(h) THEN "still_active"
                      ELSE IF ~ok \/ ~r.ok THEN "manifest_retire"
                      ELSE "none"
            put == failed = "none"
        IN
        /\ receipt' = receipt_add(<<>>, put, "manifest_retire")
        /\ paid' = IF put THEN <<"manifest_retire">> ELSE <<>>
        /\ manifests' = IF put THEN [manifests EXCEPT ![h] = r.pad] ELSE manifests
        /\ result' = IF put THEN "ok" ELSE "err"
        /\ loc' = [LocInit EXCEPT !.helm = h, !.failedAt = failed]
    /\ op' = "retire_manifest"
    /\ UNCHANGED <<helmReg, dataReg, keyring, ageFirstAnswerWins, pc, created,
                   ageVars, otherVars>>

\* ------------------------------------------------------------------ vaults
VaultKeys == 1..MaxVaults

\* manifest.vaults.push(VaultConfig::from(settings))
push_vault(m, vault, active) ==
    [m EXCEPT !.vaults = Append(@, [address |-> vault, active |-> active])]

\* Manifest::vault_mut : the first vault with the address, if there is one
has_vault(m, vault) == \E i \in 1..Len(m.vaults) : m.vaults[i].address = vault

\* ModificationRequest::builder() .. .build() : the request of activate_vault
\* and of deactivate_vault, and the request that sets nothing
ModificationRequest_build(empty, active) ==
    [active |-> IF empty THEN "None" ELSE IF active THEN "Some(true)" ELSE "Some(false)",
     bridge |-> "None", name |-> "None", description |-> "None"]

\* ModificationRequest::is_empty
is_empty_Never(req) == FALSE
is_empty(req) ==
    /\ req.active = "None"
    /\ req.bridge = "None"
    /\ req.name = "None"
    /\ req.description = "None"

\* VaultConfig::apply, as far as the vault's `active` goes
apply_modification(m, vault, req) ==
    LET first == CHOOSE i \in 1..Len(m.vaults) :
                     /\ m.vaults[i].address = vault
                     /\ \A j \in 1..(i - 1) : m.vaults[j].address # vault
    IN [m EXCEPT !.vaults[first].active =
                     IF req.active = "None" THEN @ ELSE req.active = "Some(true)"]

\* create_vault / activate_vault / deactivate_vault : with_receipt hands a
\* fresh Receipt to the operation
\* _modify_vault : a request that is_empty returns Ok(()) at once
StartVault(kind, h, vault, active, empty) ==
    /\ pc = "idle" /\ created
    /\ h \in 1..Len(helmReg)
    /\ CurrentManifestPad.counter < MaxPadCounter
    /\ kind = "vault_create" => active /\ ~empty
    /\ op' = kind
    /\ receipt' = <<>> /\ paid' = <<>>
    /\ loc' = [LocInit EXCEPT !.helm = h, !.vault = vault, !.active = active,
                              !.request = IF kind = "vault_create" THEN @
                                          ELSE ModificationRequest_build(empty, active)]
    /\ IF kind = "vault_modify" /\ is_empty(ModificationRequest_build(empty, active))
       THEN Done
       ELSE /\ pc' = IF kind = "vault_create" THEN "v_pointer" ELSE "v_manifest"
            /\ result' = "none"
    /\ UNCHANGED <<netVars, ageFirstAnswerWins, created, ageVars, otherVars>>

\* vault::create : verify_helm_key, create_pointer
VaultCreatePointer ==
    /\ pc = "v_pointer"
    /\ \E ok \in BOOLEAN :
        LET put == verify_helm_key(loc.helm) /\ ok /\ loc.vault \notin vaultPointers IN
        /\ receipt' = receipt_add(receipt, put, "vault_pointer")
        /\ IF put
           THEN /\ vaultPointers' = vaultPointers \cup {loc.vault}
                /\ paid' = Append(paid, "vault_pointer")
                /\ pc' = "v_manifest"
                /\ UNCHANGED <<result, loc>>
           ELSE /\ Fail(IF verify_helm_key(loc.helm) THEN "v_pointer" ELSE "verify_helm")
                /\ UNCHANGED <<vaultPointers, paid>>
    /\ UNCHANGED <<netVars, ageFirstAnswerWins, op, created, ageVars, storeVars,
                   ringCase, lookupVars, manifestCase, caseVars, workerReg>>

\* vault::create : get_manifest, push, update_manifest
\* _modify_vault : get_manifest, vault_mut, apply, update_manifest
VaultUpdateManifest ==
    /\ pc = "v_manifest"
    /\ \E ok \in BOOLEAN :
        LET m == get_manifest(ArkSeed_helm_key(loc.helm))
            found == op = "vault_create" \/ has_vault(m.manifest, loc.vault)
            manifest == IF op = "vault_create"
                        THEN push_vault(m.manifest, loc.vault, loc.active)
                        ELSE IF found
                        THEN apply_modification(m.manifest, loc.vault, loc.request)
                        ELSE m.manifest
            u == update_manifest(manifest, Last(helmReg), ok)
            failed == IF m.res # "Ok" THEN "v_read"
                      ELSE IF ~found THEN "vault_not_found"
                      ELSE IF ~verify_helm_key(loc.helm) THEN "verify_helm"
                      ELSE u.failed
            put == failed = "none" /\ u.put
        IN
        /\ receipt' = receipt_add(receipt, put, "manifest_update")
        /\ IF put
           THEN /\ manifests' = [manifests EXCEPT ![Last(helmReg)] = u.pad]
                /\ paid' = Append(paid, "manifest_update")
                /\ Done
                /\ UNCHANGED loc
           ELSE IF failed = "none"
           THEN /\ Done
                /\ UNCHANGED <<manifests, paid, loc>>
           ELSE /\ Fail(failed)
                /\ UNCHANGED <<manifests, paid>>
    /\ UNCHANGED <<helmReg, dataReg, keyring, ageFirstAnswerWins, op, created,
                   ageVars, otherVars>>

\* ------------------------------------- Worker rotation of worker_key.rs
\* rotate_worker_key / rotate_worker_key_with_seed : with_receipt hands a
\* fresh Receipt to the operation
StartRotateWorkerKey(kind, seed, h) ==
    /\ pc = "idle" /\ created
    /\ Len(workerReg) < MaxWorkerRotations + 2
    /\ CurrentManifestPad.counter < MaxPadCounter
    /\ kind = "rotate_worker_key" => seed = ArkSeed
    /\ kind = "rotate_worker_key_with_seed" => h = Last(helmReg)
    /\ op' = kind
    /\ receipt' = <<>> /\ paid' = <<>> /\ result' = "none"
    /\ loc' = [LocInit EXCEPT !.seed = seed, !.helm = h]
    /\ pc' = "wk_read"
    /\ UNCHANGED <<netVars, ageFirstAnswerWins, created, ageVars, otherVars>>

\* rotate_worker_key_with_seed : verify_ark_seed, helm_key(ark_seed);
\* worker_key(helm_key) : verify_helm_key, read_register(worker register);
\* _rotate_worker_key : get_specific_manifest(previous_worker_key, ..)
RotateWorkerKeyRead ==
    /\ pc = "wk_read"
    /\ \E ok \in BOOLEAN :
        LET m == get_specific_manifest(WorkerKey(Last(workerReg)), loc.helm) IN
        IF op = "rotate_worker_key_with_seed" /\ ~verify_ark_seed(loc.seed)
        THEN Fail("verify")
        ELSE IF ~verify_helm_key(loc.helm) THEN Fail("verify_helm")
        ELSE IF ~ok \/ workerReg = <<>> THEN Fail("wk_read")
        ELSE IF m.res # "Ok" THEN Fail("wk_manifest_read")
        ELSE /\ pc' = "wk_manifest"
             /\ loc' = [loc EXCEPT !.manifest = m.manifest]
             /\ UNCHANGED result
    /\ UNCHANGED <<netVars, ageFirstAnswerWins, op, receipt, paid, created, ageVars, otherVars>>

\* _rotate_worker_key, previous_helm_key == new_helm_key : WorkerKeySeed::random(),
\* manifest_encryptor.public_worker_key = new_worker_key.public_key(),
\* update_scratchpad(encrypt_manifest(manifest), previous_helm_key.manifest())
RotateWorkerKeyUpdateManifest ==
    /\ pc = "wk_manifest"
    /\ \E ok \in BOOLEAN :
        LET new_worker_key == WorkerKey(Len(workerReg) + 1)
            enc == ManifestEncryptor_new(ArkAddress, public_helm_key,
                                         public_key(new_worker_key), seal_key)
            pad == TypedOwnedScratchpad_new(
                       encrypt_manifest(enc, loc.manifest, FreshNonce(manifests[loc.helm])),
                       MANIFEST_SCRATCHPAD_ENCODING)
            u == update_scratchpad(pad, manifests[loc.helm])
            put == ok /\ u.kind = "put"
        IN
        /\ receipt' = receipt_add(receipt, put, "manifest_update")
        /\ IF put
           THEN /\ manifests' = [manifests EXCEPT ![loc.helm] = u.pad]
                /\ paid' = Append(paid, "manifest_update")
                /\ pc' = "wk_register"
                /\ UNCHANGED <<result, loc>>
           ELSE IF ok /\ u.kind = "same"
           THEN /\ pc' = "wk_register"
                /\ UNCHANGED <<manifests, paid, result, loc>>
           ELSE /\ Fail("wk_manifest")
                /\ UNCHANGED <<manifests, paid>>
    /\ UNCHANGED <<helmReg, dataReg, keyring, ageFirstAnswerWins, op, created, ageVars, otherVars>>

\* _rotate_worker_key, previous_helm_key == new_helm_key :
\* update_register(previous_helm_key.worker_register(), new_worker_key_seed)
RotateWorkerKeyUpdateRegister ==
    /\ pc = "wk_register"
    /\ \E ok \in BOOLEAN :
        /\ receipt' = receipt_add(receipt, ok, "worker_register")
        /\ IF ok
           THEN /\ workerReg' = Append(workerReg, Len(workerReg) + 1)
                /\ paid' = Append(paid, "worker_register")
                /\ Done
                /\ UNCHANGED loc
           ELSE /\ Fail("wk_register")
                /\ UNCHANGED <<workerReg, paid>>
    /\ UNCHANGED <<netVars, ageFirstAnswerWins, op, created, ageVars, storeVars,
                   ringCase, lookupVars, manifestCase, caseVars, vaultPointers>>

\* ------------------------------------------------ KeyRing on its own
RingNone == [stage |-> "none", history |-> <<>>, key_map |-> {}, secret_keys |-> <<>>]

\* register histories of distinct seeds, oldest first
Histories ==
    UNION {{h \in [1..n -> 1..MaxHistory] : \A i, j \in 1..n : h[i] = h[j] => i = j}
           : n \in 1..MaxHistory}

\* the orders in which a HashMap can hand out its values
Enumerations(key_map) ==
    {e \in [1..Cardinality(key_map) -> key_map] :
        \A i, j \in 1..Cardinality(key_map) : e[i] = e[j] => i = j}

RingIdle == ringCase = RingNone

\* derive_data_keyring : history.into_iter().map(data_key).collect()
RingCollect ==
    /\ ringCase.stage = "input"
    /\ ringCase' = [ringCase EXCEPT
           !.stage = "collected",
           !.key_map = KeyRing_from_iter([i \in 1..Len(ringCase.history) |->
                                            ArkSeed_data_key(ringCase.history[i])])]

\* From<KeyRing<T>> for protos::KeyRing : key_map.into_values().collect()
RingSerialize ==
    /\ ringCase.stage = "collected"
    /\ \E e \in Enumerations(ringCase.key_map) :
           ringCase' = [ringCase EXCEPT !.stage = "serialized", !.secret_keys = e]

\* TryFrom<protos::KeyRing> for KeyRing<T>
RingDeserialize ==
    /\ ringCase.stage = "serialized"
    /\ ringCase' = [ringCase EXCEPT
           !.stage = "deserialized",
           !.key_map = KeyRing_from_iter(ringCase.secret_keys)]

\* ------------------------------------------- storage primitives on their own
\* Two Cores, each with its own cache, work on one address of the network.
Cores == {"A", "B"}

ObjKinds == {"scratchpad", "pointer", "register"}

StoreValues == {"v1", "v2"}

NoPointer == [counter |-> -1, target |-> "none"]

NoRegister == [value |-> "none"]

Absent(kind) ==
    IF kind = "scratchpad" THEN NoPad
    ELSE IF kind = "pointer" THEN NoPointer
    ELSE NoRegister

OpsOf(kind) ==
    IF kind = "scratchpad"
    THEN {"get_scratchpad", "create_scratchpad", "update_scratchpad",
          "danger_retire_scratchpad"}
    ELSE IF kind = "pointer"
    THEN {"read_pointer", "create_pointer", "create_immutable_pointer", "update_pointer"}
    ELSE {"get_register", "create_register", "update_register"}

ReadOps == {"get_scratchpad", "read_pointer", "get_register"}

\* operations whose outcome does not depend on the value, or on the counter,
\* of the object handed in
IgnoresInput == ReadOps \cup {"danger_retire_scratchpad"}

IgnoresCounter == {"create_immutable_pointer", "create_register", "update_register"}

CreateOps == {"create_scratchpad", "create_pointer", "create_immutable_pointer",
              "create_register"}

\* the operations that look the address up through the cache (_scratchpad_get,
\* _pointer_get, _register_get)
CachedGetOps ==
    {"get_scratchpad", "update_scratchpad", "read_pointer", "create_pointer",
     "create_immutable_pointer", "update_pointer", "get_register", "create_register",
     "update_register"}

\* PointerExt::is_mutable
pointer_is_mutable(pointer) == pointer.counter < POINTER_EOL_COUNTER

\* TypedOwnedPointer::make_immutable (the check looks at the local pointer only)
pointer_make_immutable(pointer) ==
    IF ~pointer_is_mutable(pointer)
    THEN [ok |-> FALSE, pointer |-> pointer]
    ELSE [ok |-> TRUE, pointer |-> [pointer EXCEPT !.counter = POINTER_EOL_COUNTER]]

\* Core::update_pointer up to the network write
update_pointer(pointer, existing) ==
    IF existing = NoPointer THEN [kind |-> "err", pointer |-> pointer]
    ELSE IF ~pointer_is_mutable(existing) THEN [kind |-> "err", pointer |-> pointer]
    ELSE IF existing.counter > pointer.counter THEN [kind |-> "err", pointer |-> pointer]
    ELSE IF existing.target = pointer.target /\ existing.counter = pointer.counter
    THEN [kind |-> "same", pointer |-> existing]
    ELSE [kind |-> "put", pointer |-> pointer]

\* the object a caller hands to an operation: TypedOwnedScratchpad::new or
\* TypedOwnedPointer::new followed by local updates, or a register value
LocalObject(kind, value, n) ==
    IF kind = "scratchpad"
    THEN [counter |-> n, data_encoding |-> MANIFEST_SCRATCHPAD_ENCODING,
          content |-> [kind |-> value]]
    ELSE IF kind = "pointer" THEN [counter |-> n - 1, target |-> value]
    ELSE [value |-> value]

CacheMiss(kind) == [hit |-> FALSE, value |-> Absent(kind)]

CallIdle(kind) ==
    [stage |-> "idle", kind |-> "none", local |-> Absent(kind),
     netAtBegin |-> Absent(kind), existing |-> Absent(kind), fromNet |-> FALSE,
     write |-> Absent(kind), atWrite |-> Absent(kind),
     wrote |-> FALSE, applied |-> FALSE, ret |-> -1, error |-> "none", receipt |-> 0,
     round |-> 1, first |-> Absent(kind), firstWrote |-> FALSE]

StoreIdle ==
    /\ objKind = "scratchpad"
    /\ net = Absent("scratchpad")
    /\ netAcceptsEqual = FALSE
    /\ cache = [c \in Cores |-> CacheMiss("scratchpad")]
    /\ call = [c \in Cores |-> CallIdle("scratchpad")]
    /\ calls = 0

\* moka try_get_with_by_ref : the entry when there is one, else what the
\* network returns, which becomes the entry (Ok(None) included)
cache_get(c) == IF cache[c].hit THEN cache[c].value ELSE net

\* what an operation does up to its network write, given what the lookup
\* returned: fail, return without writing, or put `write`
StorePlan(kind, local, existing, exists) ==
    IF kind \in ReadOps
    THEN [kind |-> "read", write |-> existing,
          error |-> IF existing = Absent(objKind) THEN "not found" ELSE "none"]
    ELSE IF kind = "create_scratchpad"
    THEN IF exists THEN [kind |-> "err", write |-> local, error |-> "already exists"]
         ELSE [kind |-> "put", write |-> local, error |-> "none"]
    ELSE IF kind = "update_scratchpad"
    THEN LET u == update_scratchpad(local, existing) IN
         [kind |-> u.kind, write |-> u.pad,
          error |-> IF u.kind # "err" THEN "none"
                    ELSE IF existing = NoPad THEN "does not exist" ELSE "terminal"]
    ELSE IF kind = "danger_retire_scratchpad"
    THEN LET r == retire(local) IN
         [kind |-> IF r.ok THEN "put" ELSE "err", write |-> r.pad,
          error |-> IF r.ok THEN "none" ELSE "terminal"]
    ELSE IF kind = "create_pointer"
    THEN IF existing # NoPointer
         THEN [kind |-> "err", write |-> local, error |-> "already exists"]
         ELSE [kind |-> "put", write |-> local, error |-> "none"]
    ELSE IF kind = "create_immutable_pointer"
    THEN LET m == pointer_make_immutable(local) IN
         IF ~m.ok THEN [kind |-> "err", write |-> local, error |-> "terminal"]
         ELSE IF existing # NoPointer
         THEN [kind |-> "err", write |-> m.pointer, error |-> "already exists"]
         ELSE [kind |-> "put", write |-> m.pointer, error |-> "none"]
    ELSE IF kind = "update_pointer"
    THEN LET u == update_pointer(local, existing) IN
         [kind |-> u.kind, write |-> u.pointer,
          error |-> IF u.kind # "err" THEN "none"
                    ELSE IF existing = NoPointer THEN "does not exist"
                    ELSE IF ~pointer_is_mutable(existing) THEN "terminal"
                    ELSE "higher version"]
    ELSE IF kind = "create_register"
    THEN IF existing # NoRegister
         THEN [kind |-> "err", write |-> local, error |-> "already exists"]
         ELSE [kind |-> "put", write |-> local, error |-> "none"]
    ELSE IF existing = NoRegister
         THEN [kind |-> "err", write |-> local, error |-> "does not exist"]
         ELSE [kind |-> "put", write |-> local, error |-> "none"]

\* the first half of an operation: the lookup and the checks before the write
BeginCall(c, kind, local, round) ==
    \E ok \in BOOLEAN :
        LET cached == kind \in CachedGetOps
            live == (cached /\ ~cache[c].hit) \/ kind = "create_scratchpad"
            existing == IF cached THEN cache_get(c) ELSE Absent(objKind)
            exists == cache[c].hit \/ net # NoPad
            plan == StorePlan(kind, local, existing, exists)
            base == [CallIdle(objKind) EXCEPT
                        !.kind = kind, !.local = local, !.netAtBegin = net,
                        !.round = round,
                        !.first = IF round = 2 THEN call[c].write ELSE Absent(objKind),
                        !.firstWrote = round = 2 /\ call[c].wrote]
        IN
        IF live /\ ~ok
        THEN /\ call' = [call EXCEPT ![c] = [base EXCEPT !.stage = "done",
                                                         !.error = "network"]]
             /\ UNCHANGED cache
        ELSE /\ cache' = IF cached
                         THEN [cache EXCEPT ![c] = [hit |-> TRUE, value |-> existing]]
                         ELSE cache
             /\ call' = [call EXCEPT ![c] =
                    [base EXCEPT
                        !.existing = existing,
                        !.fromNet = live,
                        !.write = plan.write,
                        !.error = plan.error,
                        !.ret = IF plan.kind = "same" THEN existing.counter ELSE -1,
                        !.stage = IF plan.kind = "put" THEN "begun" ELSE "done"]]

\* get_scratchpad, create_scratchpad, update_scratchpad, danger_retire_scratchpad,
\* read_pointer, create_pointer, create_immutable_pointer, update_pointer,
\* get_register, create_register, update_register : up to the network write
StoreBegin(c, kind, value, n) ==
    /\ call[c].stage \in {"idle", "done"}
    /\ kind \in OpsOf(objKind)
    /\ calls < MaxCalls
    /\ kind = "update_scratchpad" => (net.counter < MaxStoreCounter \/ is_retired(net))
    /\ kind \in IgnoresInput => value = "v1"
    /\ (kind \in IgnoresInput \/ kind \in IgnoresCounter) => n = 1
    /\ BeginCall(c, kind, LocalObject(objKind, value, n), 1)
    /\ calls' = calls + 1
    /\ UNCHANGED <<netVars, ageFirstAnswerWins, op, pc, loc, receipt, paid, result,
                   created, ageVars, objKind, net, netAcceptsEqual, ringCase, lookupVars, manifestCase, caseVars, vaultPointers, workerReg>>

\* update_scratchpad called once more with the pad of the call that just
\* returned Ok
StoreRepeat(c) ==
    /\ call[c].stage = "done" /\ call[c].kind = "update_scratchpad"
    /\ call[c].error = "none" /\ call[c].round = 1
    /\ calls < MaxCalls
    /\ BeginCall(c, "update_scratchpad", call[c].local, 2)
    /\ calls' = calls + 1
    /\ UNCHANGED <<netVars, ageFirstAnswerWins, op, pc, loc, receipt, paid, result,
                   created, ageVars, objKind, net, netAcceptsEqual, ringCase, lookupVars, manifestCase, caseVars, vaultPointers, workerReg>>

\* what the network does with a put: it never takes a counter below the one
\* it holds; whether it takes an equal one differs between networks
NetAccepts(kind, write) ==
    IF kind = "create_register" THEN net = NoRegister
    ELSE IF kind = "update_register" THEN net # NoRegister
    ELSE \/ net = Absent(objKind)
         \/ write.counter > net.counter
         \/ netAcceptsEqual /\ write.counter = net.counter

\* client.scratchpad_put / pointer_put / register_create / register_update
StoreIssue(c) ==
    /\ call[c].stage = "begun"
    /\ \E ok \in BOOLEAN :
        LET accepted == ok /\ NetAccepts(call[c].kind, call[c].write) IN
        /\ net' = IF accepted THEN call[c].write ELSE net
        /\ call' = [call EXCEPT ![c] = [@ EXCEPT !.stage = "inflight", !.wrote = TRUE,
                                                !.atWrite = net, !.applied = accepted]]
    /\ UNCHANGED <<netVars, ageFirstAnswerWins, op, pc, loc, receipt, paid, result,
                   created, ageVars, objKind, netAcceptsEqual, cache, calls, ringCase, lookupVars, manifestCase, caseVars, vaultPointers, workerReg>>

\* whether the operation reaches its cache.invalidate once the put returned:
\* create_register leaves with `?` before it
Invalidates(kind, applied) == kind # "create_register" \/ applied

\* the second half of an operation: cache.invalidate, `res?`, receipt.add
StoreReturn(c) ==
    /\ call[c].stage = "inflight"
    /\ cache' = IF Invalidates(call[c].kind, call[c].applied)
                THEN [cache EXCEPT ![c] = CacheMiss(objKind)]
                ELSE cache
    /\ call' = [call EXCEPT ![c] =
           [@ EXCEPT !.stage = "done",
                     !.error = IF call[c].applied THEN "none" ELSE "network",
                     !.receipt = IF call[c].applied THEN 1 ELSE 0,
                     !.ret = IF call[c].applied /\ objKind # "register"
                             THEN call[c].write.counter ELSE -1]]
    /\ UNCHANGED <<netVars, ageFirstAnswerWins, op, pc, loc, receipt, paid, result,
                   created, ageVars, objKind, net, netAcceptsEqual, calls, ringCase, lookupVars, manifestCase, caseVars, vaultPointers, workerReg>>

\* ------------------------------------------ concurrent lookups of one Core
\* Tasks of one Core look the same address up through the Core's cache while
\* the address changes on the network and the Core's writes invalidate.
Tasks == 1..MaxTasks

\* `floor` is the counter of the last write of this Core that had returned
\* when the lookup began
LookupNone == [stage |-> "idle", fetch |-> 0, res |-> "none", value |-> NoPad, floor |-> 0]

NoAnswer == [got |-> FALSE, ok |-> FALSE, value |-> NoPad]

\* `answers` holds what the network has answered to a fetch that has not
\* returned to the cache yet
FetchNone ==
    [inflight |-> {}, started |-> 0, answers |-> [id \in 1..MaxFetches |-> NoAnswer]]

\* the counter of the last write of this Core that has returned
ReturnedWriteCounter ==
    IF call["A"].stage = "returned" THEN call["A"].write.counter
    ELSE IF call["A"].stage = "issued" THEN call["A"].atWrite.counter
    ELSE 0

LookupIdle ==
    /\ lookup = [t \in Tasks |-> LookupNone]
    /\ fetch = FetchNone

\* try_get_with_by_ref on a key without an entry: a lookup joins the fetch
\* that is running for the key and starts one only when none is
try_get_with_by_ref_NoCoalescing(f) == f.started + 1
try_get_with_by_ref(f) ==
    IF f.inflight = {} THEN f.started + 1 ELSE CHOOSE id \in f.inflight : TRUE

\* _scratchpad_get / _pointer_get / _register_get : the entry, or a fetch
LookupStart(t) ==
    /\ lookup[t].stage # "waiting"
    /\ IF cache["A"].hit
       THEN /\ lookup' = [lookup EXCEPT ![t] =
                   [stage |-> "done", fetch |-> 0, res |-> "Ok",
                    value |-> cache["A"].value, floor |-> ReturnedWriteCounter]]
            /\ UNCHANGED fetch
       ELSE LET id == try_get_with_by_ref(fetch) IN
            /\ id <= MaxFetches
            /\ lookup' = [lookup EXCEPT ![t] =
                   [stage |-> "waiting", fetch |-> id, res |-> "none", value |-> NoPad,
                    floor |-> ReturnedWriteCounter]]
            /\ fetch' = [fetch EXCEPT
                             !.inflight = @ \cup {id},
                             !.started = IF id > @ THEN id ELSE @]
    /\ UNCHANGED <<netVars, ageFirstAnswerWins, op, pc, loc, receipt, paid, result,
                   created, ageVars, storeVars, ringCase, manifestCase, caseVars, vaultPointers, workerReg>>

\* _scratchpad_get_live / _pointer_get_live / register_get : the network
\* answers the fetch with what it holds at that moment, or with an error
LookupFetchAnswer(id) ==
    /\ id \in fetch.inflight
    /\ ~fetch.answers[id].got
    /\ \E ok \in BOOLEAN :
        fetch' = [fetch EXCEPT !.answers[id] =
                     [got |-> TRUE, ok |-> ok, value |-> IF ok THEN net ELSE NoPad]]
    /\ UNCHANGED <<netVars, ageFirstAnswerWins, op, pc, loc, receipt, paid, result,
                   created, ageVars, storeVars, lookup, ringCase, manifestCase, caseVars,
                   vaultPointers, workerReg>>

\* try_get_with_by_ref when the fetch returns: the value it got becomes the
\* entry and every lookup that waited for the fetch gets it; an error goes to
\* every one of them and leaves no entry
LookupFetchDone(id) ==
    /\ id \in fetch.inflight
    /\ fetch.answers[id].got
    /\ LET a == fetch.answers[id] IN
        /\ lookup' = [t \in Tasks |->
               IF lookup[t].stage = "waiting" /\ lookup[t].fetch = id
               THEN [lookup[t] EXCEPT !.stage = "done",
                                      !.res = IF a.ok THEN "Ok" ELSE "Err",
                                      !.value = a.value]
               ELSE lookup[t]]
        /\ cache' = IF a.ok THEN [cache EXCEPT !["A"] = [hit |-> TRUE, value |-> a.value]]
                    ELSE cache
    /\ fetch' = [fetch EXCEPT !.inflight = @ \ {id}, !.answers[id] = NoAnswer]
    /\ UNCHANGED <<netVars, ageFirstAnswerWins, op, pc, loc, receipt, paid, result,
                   created, ageVars, objKind, net, netAcceptsEqual, call, calls, ringCase, manifestCase, caseVars, vaultPointers, workerReg>>

\* a write of the address lands on the network
LookupNetChange(value) ==
    /\ net # LocalObject("scratchpad", value, 1)
    /\ net' = LocalObject("scratchpad", value, 1)
    /\ UNCHANGED <<netVars, ageFirstAnswerWins, op, pc, loc, receipt, paid, result,
                   created, ageVars, objKind, netAcceptsEqual, cache, call, calls,
                   ringCase, lookupVars, manifestCase, caseVars, vaultPointers, workerReg>>

\* scratchpad_cache.invalidate(&address) of a write of this Core
LookupInvalidate ==
    /\ cache["A"].hit
    /\ cache' = [cache EXCEPT !["A"] = CacheMiss("scratchpad")]
    /\ UNCHANGED <<netVars, ageFirstAnswerWins, op, pc, loc, receipt, paid, result,
                   created, ageVars, objKind, net, netAcceptsEqual, call, calls,
                   ringCase, lookupVars, manifestCase, caseVars, vaultPointers, workerReg>>

\* _scratchpad_put of a write of this Core: client.scratchpad_put lands on the
\* network.  The pad carries a counter above the one the network holds, as
\* update_scratchpad gives it after reading the current pad.
ScratchpadPutIssue(value) ==
    /\ call["A"].stage \in {"idle", "returned"}
    /\ net.counter < MaxStoreCounter
    /\ net' = LocalObject("scratchpad", value, net.counter + 1)
    /\ call' = [call EXCEPT !["A"] =
           [CallIdle("scratchpad") EXCEPT
                !.kind = "update_scratchpad", !.stage = "issued",
                !.write = LocalObject("scratchpad", value, net.counter + 1),
                !.atWrite = net, !.wrote = TRUE]]
    /\ UNCHANGED <<netVars, ageFirstAnswerWins, op, pc, loc, receipt, paid, result,
                   created, ageVars, objKind, netAcceptsEqual, cache, calls,
                   ringCase, lookupVars, manifestCase, caseVars, vaultPointers, workerReg>>

\* _scratchpad_put : scratchpad_cache.invalidate(&address), then Ok to the caller
ScratchpadPutReturn ==
    /\ call["A"].stage = "issued"
    /\ cache' = [cache EXCEPT !["A"] = CacheMiss("scratchpad")]
    /\ call' = [call EXCEPT !["A"].stage = "returned"]
    /\ UNCHANGED <<netVars, ageFirstAnswerWins, op, pc, loc, receipt, paid, result,
                   created, ageVars, objKind, net, netAcceptsEqual, calls,
                   ringCase, lookupVars, manifestCase, caseVars, vaultPointers, workerReg>>

\* --------------------------------------------- ark_from_vault_address
\* A third party resolves a vault address; the holder of the vault key is the
\* only one who can write the pointer at the derived address.
OtherArkAddress == public_key(OtherSeed)

\* PointerTarget, as far as _ark_from_vault_address tells the kinds apart
PointerTargets ==
    {[kind |-> "PointerAddress", owner |-> ArkAddress],
     [kind |-> "PointerAddress", owner |-> OtherArkAddress],
     [kind |-> "ChunkAddress", owner |-> ArkAddress]}

PointerCounters == (0..MaxPointerCounter) \cup {POINTER_EOL_COUNTER}

\* the pointer the network holds at ArkPointer::from_vault_address(vault_address)
AbsentArkPointer ==
    [exists |-> FALSE, counter |-> 0,
     target |-> [kind |-> "ChunkAddress", owner |-> ArkAddress]]

\* PointerExt::is_final
pointer_is_final_Always(pointer) == TRUE
pointer_is_final(pointer) == pointer.counter = POINTER_EOL_COUNTER

\* ArkAddress::from(addr.owner()) of a PointerTarget::PointerAddress
ark_address_of(target) == target.owner

\* _ark_from_vault_address when both network calls answer
ark_from_vault_address(pointer) ==
    IF ~pointer.exists THEN [res |-> "None", address |-> ArkAddress]
    ELSE IF ~pointer_is_final(pointer) THEN [res |-> "Err", address |-> ArkAddress]
    ELSE IF pointer.target.kind # "PointerAddress"
    THEN [res |-> "Err", address |-> ArkAddress]
    ELSE [res |-> "Some", address |-> ark_address_of(pointer.target)]

\* the pointer vault::create has put for a vault key: OwnedArkPointer::from_vault_key
\* with target core.ark_address, made immutable
VaultArkPointer(vault) ==
    IF vault \in vaultPointers
    THEN pointer_make_immutable(
             [exists |-> TRUE, counter |-> 0,
              target |-> [kind |-> "PointerAddress", owner |-> ArkAddress]]).pointer
    ELSE AbsentArkPointer

VaultNone ==
    [pointer |-> AbsentArkPointer, pc |-> "idle", res |-> "none",
     address |-> ArkAddress, seen |-> AbsentArkPointer, got |-> AbsentArkPointer,
     failed |-> "none"]

VaultIdle == vaultCase = VaultNone

\* everything but vaultCase
vaultFrame ==
    <<netVars, ageFirstAnswerWins, op, pc, loc, receipt, paid, result, created, ageVars,
      storeVars, ringCase, lookupVars, manifestCase, vaultPointers, workerReg,
      progressCase>>

\* the network's rule for a pointer put by the owner's key: an absent pointer
\* is created, a mutable one is replaced by a higher counter, a final one stays
PointerPut(counter, target) ==
    /\ vaultCase.pointer.exists =>
           /\ pointer_is_mutable(vaultCase.pointer)
           /\ counter > vaultCase.pointer.counter
    /\ vaultCase' = [vaultCase EXCEPT
           !.pointer = [exists |-> TRUE, counter |-> counter, target |-> target]]
    /\ UNCHANGED vaultFrame

\* Core::ark_from_vault_address : Progress::new, the future is handed out
ArkFromVaultStart ==
    /\ vaultCase.pc \in {"idle", "done"}
    /\ vaultCase' = [vaultCase EXCEPT
           !.pc = "check", !.res = "none", !.address = ArkAddress,
           !.seen = AbsentArkPointer, !.got = AbsentArkPointer, !.failed = "none"]
    /\ UNCHANGED vaultFrame

\* _ark_from_vault_address : pointer_check_existance
ArkFromVaultCheck(ok) ==
    /\ vaultCase.pc = "check"
    /\ vaultCase' =
           IF ~ok
           THEN [vaultCase EXCEPT !.pc = "done", !.res = "Err", !.failed = "network"]
           ELSE IF ~vaultCase.pointer.exists
           THEN [vaultCase EXCEPT !.pc = "done", !.res = "None"]
           ELSE [vaultCase EXCEPT !.pc = "get", !.seen = vaultCase.pointer]
    /\ UNCHANGED vaultFrame

\* _ark_from_vault_address : pointer_get, is_final, match pointer.target()
ArkFromVaultGet(ok) ==
    /\ vaultCase.pc = "get"
    /\ LET pointer == vaultCase.pointer IN
       vaultCase' =
           IF ~ok
           THEN [vaultCase EXCEPT !.pc = "done", !.res = "Err", !.failed = "network"]
           ELSE IF ~pointer_is_final(pointer)
           THEN [vaultCase EXCEPT !.pc = "done", !.res = "Err", !.got = pointer,
                                  !.failed = "not_final"]
           ELSE IF pointer.target.kind # "PointerAddress"
           THEN [vaultCase EXCEPT !.pc = "done", !.res = "Err", !.got = pointer,
                                  !.failed = "not_address"]
           ELSE [vaultCase EXCEPT !.pc = "done", !.res = "Some", !.got = pointer,
                                  !.address = ark_address_of(pointer.target)]
    /\ UNCHANGED vaultFrame

\* ------------------------------------------------- progress reporting
\* One Progress::new: the root Task (id 1), the children made from it, the
\* event channel, the sender tasks spawned by Task::send, the reporter task
\* and the Report it publishes.  The channel holds MaxChannel events where
\* the code's holds 64.
TaskIds == 1..MaxTaskId

\* everything but progressCase
progressFrame ==
    <<netVars, ageFirstAnswerWins, op, pc, loc, receipt, paid, result, created, ageVars,
      storeVars, ringCase, lookupVars, manifestCase, vaultPointers, workerReg,
      vaultCase>>

ProgressNone == [stage |-> "none"]

ProgressIdle == progressCase = ProgressNone

\* Report { id, total, completed, status, subreports } : one entry per task
\* id, `present` once the task is in the tree
ReportAbsent == [present |-> FALSE, status |-> "WAITING", completed |-> 0]

\* Task::new : the Report with the root in it
Report_new == [id \in TaskIds |-> IF id = 1 THEN [ReportAbsent EXCEPT !.present = TRUE]
                                  ELSE ReportAbsent]

\* Progress::new / Task::new : the root Task, counter 2, an empty channel and
\* the reporter spawned
Task_new ==
    [stage |-> "running",
     handle |-> [id \in TaskIds |-> IF id = 1 THEN "held" ELSE "none"],
     ended |-> [id \in TaskIds |-> "none"],
     counter |-> 2,
     channel |-> <<>>,
     spawned |-> {},
     emitted |-> <<>>,
     applied |-> <<>>,
     report |-> Report_new,
     published |-> Report_new,
     reporter |-> "running",
     progress |-> "held",
     outcome |-> "none"]

\* Event::add / start / stop / complete / failed / progress, numbered in the
\* order of the send calls; `by` is the Task whose method sent it
Event(kind, task_id, n, by) ==
    [kind |-> kind, task_id |-> task_id, n |-> n, by |-> by,
     seq |-> Len(progressCase.emitted) + 1]

\* the mpsc receiver lives in the reporter's future
ReceiverAlive(p) == p.reporter # "stopped"

\* Task::send : try_send, and a spawned task that sends when try_send failed;
\* on a closed channel the spawned send fails at once
send(p, event) ==
    IF ~ReceiverAlive(p) THEN [p EXCEPT !.emitted = Append(@, event)]
    ELSE IF Len(p.channel) < MaxChannel
    THEN [p EXCEPT !.emitted = Append(@, event), !.channel = Append(@, event)]
    ELSE [p EXCEPT !.emitted = Append(@, event), !.spawned = @ \cup {event}]

\* Drop for Task : the root Task holds the reporter's abort handle
drop_NoAbort(p, id) == p
drop(p, id) ==
    IF id = 1 /\ p.reporter = "running" THEN [p EXCEPT !.reporter = "aborted"] ELSE p

\* the reporter's match on the event: the Report afterwards
apply_event(report, event) ==
    LET id == event.task_id IN
    IF event.kind = "Add"
    THEN IF report[event.by].present
         THEN [report EXCEPT ![id] = [ReportAbsent EXCEPT !.present = TRUE]]
         ELSE report
    ELSE IF ~report[id].present THEN report
    ELSE IF event.kind = "Complete" THEN [report EXCEPT ![id].status = "SUCCESS"]
    ELSE IF event.kind = "Failed" THEN [report EXCEPT ![id].status = "FAILURE"]
    ELSE IF event.kind = "Start" THEN [report EXCEPT ![id].status = "ACTIVE"]
    ELSE IF event.kind = "Stop" THEN [report EXCEPT ![id].status = "WAITING"]
    ELSE IF event.n > 0
    THEN [report EXCEPT ![id].status = "ACTIVE", ![id].completed = @ + event.n]
    ELSE report

\* senders of the channel: the Tasks held and the spawned sender tasks
HasSenders(p) == (\E id \in TaskIds : p.handle[id] = "held") \/ p.spawned # {}

CanEmit == progressCase # ProgressNone /\ Len(progressCase.emitted) < MaxEvents

\* Progress::new
ProgressNew ==
    /\ progressCase = ProgressNone
    /\ progressCase' = Task_new
    /\ UNCHANGED progressFrame

\* Task::child
TaskChild(parent) ==
    /\ CanEmit
    /\ progressCase.handle[parent] = "held"
    /\ progressCase.counter <= MaxTaskId
    /\ LET child_id == progressCase.counter
           p == send(progressCase, Event("Add", child_id, 0, parent))
       IN progressCase' = [p EXCEPT !.counter = @ + 1, !.handle[child_id] = "held"]
    /\ UNCHANGED progressFrame

\* Task::start
TaskStart(id) ==
    /\ CanEmit
    /\ progressCase.handle[id] = "held"
    /\ progressCase' = send(progressCase, Event("Start", id, 0, id))
    /\ UNCHANGED progressFrame

\* Task::stop
TaskStop(id) ==
    /\ CanEmit
    /\ progressCase.handle[id] = "held"
    /\ progressCase' = send(progressCase, Event("Stop", id, 0, id))
    /\ UNCHANGED progressFrame

\* AddAssign<usize> for Task : task += n
TaskAdd(id, n) ==
    /\ CanEmit
    /\ progressCase.handle[id] = "held"
    /\ progressCase' = send(progressCase, Event("Progress", id, n, id))
    /\ UNCHANGED progressFrame

\* Task::complete(self) : the event, then the Task is dropped; the operations
\* return Ok right after the root's complete
TaskComplete(id) ==
    /\ CanEmit
    /\ progressCase.handle[id] = "held"
    /\ LET p == drop(send(progressCase, Event("Complete", id, 0, id)), id) IN
       progressCase' = [p EXCEPT !.handle[id] = "gone", !.ended[id] = "complete",
                                 !.outcome = IF id = 1 THEN "ok" ELSE @]
    /\ UNCHANGED progressFrame

\* Task::failure(self) : the event, then the Task is dropped
TaskFailure(id) ==
    /\ CanEmit
    /\ progressCase.handle[id] = "held"
    /\ LET p == drop(send(progressCase, Event("Failed", id, 0, id)), id) IN
       progressCase' = [p EXCEPT !.handle[id] = "gone", !.ended[id] = "failure"]
    /\ UNCHANGED progressFrame

\* a child Task goes out of scope
TaskDrop(id) ==
    /\ progressCase # ProgressNone
    /\ id # 1
    /\ progressCase.handle[id] = "held"
    /\ progressCase' = [drop(progressCase, id) EXCEPT
                            !.handle[id] = "gone", !.ended[id] = "dropped"]
    /\ UNCHANGED progressFrame

\* an operation returns an error with `?` : the root Task and the children
\* not yet completed go out of scope
OperationFails ==
    /\ progressCase # ProgressNone
    /\ progressCase.handle[1] = "held"
    /\ progressCase' =
           [drop(progressCase, 1) EXCEPT
                !.handle = [id \in TaskIds |-> IF @[id] = "held" THEN "gone" ELSE @[id]],
                !.ended = [id \in TaskIds |->
                              IF progressCase.handle[id] = "held" THEN "dropped" ELSE @[id]],
                !.outcome = "err"]
    /\ UNCHANGED progressFrame

\* the caller drops the Progress (all its clones)
ProgressDrop ==
    /\ progressCase # ProgressNone
    /\ progressCase.progress = "held"
    /\ progressCase' = [progressCase EXCEPT !.progress = "dropped"]
    /\ UNCHANGED progressFrame

\* a sender task spawned by Task::send: tx.send(event).await gets its place in
\* the channel, or fails because the receiver is gone
SpawnedSend ==
    /\ progressCase # ProgressNone
    /\ \E event \in progressCase.spawned :
           IF ~ReceiverAlive(progressCase)
           THEN progressCase' = [progressCase EXCEPT !.spawned = @ \ {event}]
           ELSE /\ Len(progressCase.channel) < MaxChannel
                /\ progressCase' = [progressCase EXCEPT !.spawned = @ \ {event},
                                                        !.channel = Append(@, event)]
    /\ UNCHANGED progressFrame

\* the reporter: event_rx.recv() hands an event over; with the watch channel
\* closed the loop breaks, else the event is matched and a changed Report is
\* sent.  An aborted reporter that is being polled goes on up to its next
\* pending recv.
ReporterRecv ==
    /\ progressCase # ProgressNone
    /\ progressCase.reporter # "stopped"
    /\ progressCase.channel # <<>>
    /\ LET event == Head(progressCase.channel)
           report == apply_event(progressCase.report, event)
       IN progressCase' =
              IF progressCase.progress = "dropped"
              THEN [progressCase EXCEPT !.channel = Tail(@), !.reporter = "stopped"]
              ELSE [progressCase EXCEPT !.channel = Tail(@),
                                        !.applied = Append(@, event),
                                        !.report = report,
                                        !.published = report]
    /\ UNCHANGED progressFrame

\* the reporter ends: cancelled through the abort handle at a pending recv (or
\* before it is polled again), or its loop condition finds no sender left;
\* the events still in the channel go with the receiver
ReporterStop ==
    /\ progressCase # ProgressNone
    /\ progressCase.reporter # "stopped"
    /\ progressCase.reporter = "aborted" \/ ~HasSenders(progressCase)
    /\ progressCase' = [progressCase EXCEPT !.reporter = "stopped", !.channel = <<>>]
    /\ UNCHANGED progressFrame

CaseIdle == VaultIdle /\ ProgressIdle

\* ----------------------------------------------------------- specification
AgeNone == [stage |-> "none"]

Init ==
    /\ helmReg = <<>> /\ dataReg = <<>>
    /\ keyring = NoPad
    /\ manifests = [h \in HelmSeeds |-> NoPad]
    /\ ageFirstAnswerWins \in BOOLEAN
    /\ op = "none" /\ pc = "idle" /\ loc = LocInit
    /\ receipt = <<>> /\ paid = <<>> /\ result = "none"
    /\ created = FALSE /\ vaultPointers = {} /\ workerReg = <<>>
    /\ ageCase = AgeNone /\ ageResult = "none"
    /\ StoreIdle /\ RingIdle /\ LookupIdle /\ ManifestIdle /\ CaseIdle

Next ==
    \/ StartCreate
    \/ CreateHelmRegister
    \/ CreateDataRegister
    \/ CreateKeyring
    \/ CreateManifest
    \/ \E kind \in {"data", "helm", "worker", "all"}, seed \in {ArkSeed, OtherSeed},
          worker \in WorkerInputs : Start(kind, seed, worker)
    \/ DataRead
    \/ DataUpdateRegister
    \/ DataUpdateKeyring
    \/ DataUpdateManifest
    \/ HelmRead
    \/ HelmUpdateRegister
    \/ HelmCreateManifest
    \/ HelmRetire
    \/ WorkerUpdate

Spec == Init /\ [][Next]_vars

\* ------------------------------------------- encrypt / decrypt on their own
AgeKeys == {ArkSeed, ArkSeed_helm_key(1), WorkerKey(1), ArkSeed_data_key(1)}

RecipientLists ==
    UNION {[1..n -> {public_key(k) : k \in AgeKeys}] : n \in 1..MaxRecipients}

InitAge ==
    /\ helmReg = <<>> /\ dataReg = <<>>
    /\ keyring = NoPad
    /\ manifests = [h \in HelmSeeds |-> NoPad]
    /\ ageFirstAnswerWins \in BOOLEAN
    /\ op = "none" /\ pc = "idle" /\ loc = LocInit
    /\ receipt = <<>> /\ paid = <<>> /\ result = "none"
    /\ created = FALSE /\ vaultPointers = {} /\ workerReg = <<>>
    /\ ageCase \in {[stage |-> "input", recipients |-> r, ciphertext |-> NoPad.content,
                     key |-> ArkSeed] : r \in RecipientLists}
    /\ ageResult = "none"
    /\ StoreIdle /\ RingIdle /\ LookupIdle /\ ManifestIdle /\ CaseIdle

\* AgeEncryptionScheme::encrypt
AgeEncrypt ==
    /\ ageCase.stage = "input"
    /\ ageCase' = [ageCase EXCEPT !.stage = "encrypted",
                                  !.ciphertext = age_encrypt("M", ageCase.recipients, 1)]
    /\ UNCHANGED <<netVars, ageFirstAnswerWins, op, pc, loc, receipt, paid, result,
                   created, ageResult, otherVars>>

\* AgeEncryptionScheme::decrypt
AgeDecrypt(k) ==
    /\ ageCase.stage = "encrypted"
    /\ ageCase' = [ageCase EXCEPT !.stage = "decrypted", !.key = k]
    /\ ageResult' = age_decrypt(ageCase.ciphertext, k, ageFirstAnswerWins)
    /\ UNCHANGED <<netVars, ageFirstAnswerWins, op, pc, loc, receipt, paid, result,
                   created, otherVars>>

NextAge ==
    \/ AgeEncrypt
    \/ \E k \in AgeKeys : AgeDecrypt(k)

SpecAge == InitAge /\ [][NextAge]_vars

\* ------------------------------------------------- KeyRing specification
ArkIdle ==
    /\ helmReg = <<>> /\ dataReg = <<>>
    /\ keyring = NoPad
    /\ manifests = [h \in HelmSeeds |-> NoPad]
    /\ ageFirstAnswerWins = FALSE
    /\ op = "none" /\ pc = "idle" /\ loc = LocInit
    /\ receipt = <<>> /\ paid = <<>> /\ result = "none"
    /\ created = FALSE /\ vaultPointers = {} /\ workerReg = <<>>
    /\ ageCase = AgeNone /\ ageResult = "none"

InitKeyRing ==
    /\ ArkIdle /\ StoreIdle /\ LookupIdle /\ ManifestIdle /\ CaseIdle
    /\ ringCase \in {[RingNone EXCEPT !.stage = "input", !.history = h] : h \in Histories}

NextKeyRing ==
    \/ RingCollect /\ UNCHANGED <<netVars, ageFirstAnswerWins, op, pc, loc, receipt, paid,
                                  result, created, ageVars, storeVars, lookupVars, manifestCase, caseVars, vaultPointers, workerReg>>
    \/ RingSerialize /\ UNCHANGED <<netVars, ageFirstAnswerWins, op, pc, loc, receipt, paid,
                                    result, created, ageVars, storeVars, lookupVars, manifestCase, caseVars, vaultPointers, workerReg>>
    \/ RingDeserialize /\ UNCHANGED <<netVars, ageFirstAnswerWins, op, pc, loc, receipt,
                                      paid, result, created, ageVars, storeVars, lookupVars, manifestCase, caseVars, vaultPointers, workerReg>>

SpecKeyRing == InitKeyRing /\ [][NextKeyRing]_vars

\* --------------------------------------------- storage specification
InitStore ==
    /\ ArkIdle /\ RingIdle /\ LookupIdle /\ ManifestIdle /\ CaseIdle
    /\ objKind \in ObjKinds
    /\ net = Absent(objKind)
    /\ netAcceptsEqual \in BOOLEAN
    /\ cache = [c \in Cores |-> CacheMiss(objKind)]
    /\ call = [c \in Cores |-> CallIdle(objKind)]
    /\ calls = 0

NextStore ==
    \/ \E c \in Cores, kind \in OpsOf(objKind), value \in StoreValues,
          n \in 1..MaxLocalCounter : StoreBegin(c, kind, value, n)
    \/ \E c \in Cores : StoreRepeat(c)
    \/ \E c \in Cores : StoreIssue(c)
    \/ \E c \in Cores : StoreReturn(c)

SpecStore == InitStore /\ [][NextStore]_vars

\* ------------------------------------------------ manifest specification
\* Ark creation and Helm rotations, with update_manifest and retire_manifest
\* called between them by the holders of the Helm keys issued so far.
NextManifest ==
    \/ StartCreate
    \/ CreateHelmRegister
    \/ CreateDataRegister
    \/ CreateKeyring
    \/ CreateManifest
    \/ \E seed \in {ArkSeed, OtherSeed} : Start("helm", seed, "generate")
    \/ HelmRead
    \/ HelmUpdateRegister
    \/ HelmCreateManifest
    \/ HelmRetire
    \/ \E h \in HelmSeeds : UpdateManifest(h)
    \/ \E h \in HelmSeeds : RetireManifest(h)

SpecManifest == Init /\ [][NextManifest]_vars

\* ------------------------------------------- update_worker specification
InitUpdateWorker ==
    /\ ArkIdle /\ StoreIdle /\ RingIdle /\ LookupIdle /\ CaseIdle
    /\ \E id \in 1..(MaxWorkerRotations + 2) :
           manifestCase = [ManifestNone EXCEPT
                               !.before = Manifest_new(public_key(WorkerKey(id))),
                               !.after = Manifest_new(public_key(WorkerKey(id)))]

NextUpdateWorker ==
    \E id \in 1..(MaxWorkerRotations + 2), now \in Times :
        /\ UpdateWorkerCall(public_key(WorkerKey(id)), now)
        /\ UNCHANGED <<netVars, ageFirstAnswerWins, op, pc, loc, receipt, paid, result,
                       created, ageVars, storeVars, ringCase, lookupVars,
                       vaultPointers, workerReg, caseVars>>

SpecUpdateWorker == InitUpdateWorker /\ [][NextUpdateWorker]_vars

\* --------------------------------------------------- vault specification
\* Ark creation, Worker and Helm rotations (the operations that write the
\* manifest's plaintext or move it) and the vault operations of the holders
\* of the Helm keys issued so far.
NextVault ==
    \/ StartCreate
    \/ CreateHelmRegister
    \/ CreateDataRegister
    \/ CreateKeyring
    \/ CreateManifest
    \/ \E kind \in {"helm", "worker"} : Start(kind, ArkSeed, "generate")
    \/ HelmRead
    \/ HelmUpdateRegister
    \/ HelmCreateManifest
    \/ HelmRetire
    \/ WorkerUpdate
    \/ \E kind \in {"vault_create", "vault_modify"}, h \in HelmSeeds,
          vault \in VaultKeys, active \in BOOLEAN, empty \in BOOLEAN :
              StartVault(kind, h, vault, active, empty)
    \/ VaultCreatePointer
    \/ VaultUpdateManifest

SpecVault == Init /\ [][NextVault]_vars

\* ------------------------------------------- worker_key.rs specification
\* Ark creation and the Worker rotation of worker_key.rs.  The creation of
\* ark.rs makes no worker register; the creation worker_key.rs was written
\* against made one, holding the seed of the first Worker key, so both kinds
\* of Ark are admitted.
InitWorkerKey ==
    /\ helmReg = <<>> /\ dataReg = <<>>
    /\ keyring = NoPad
    /\ manifests = [h \in HelmSeeds |-> NoPad]
    /\ ageFirstAnswerWins \in BOOLEAN
    /\ op = "none" /\ pc = "idle" /\ loc = LocInit
    /\ receipt = <<>> /\ paid = <<>> /\ result = "none"
    /\ created = FALSE /\ vaultPointers = {}
    /\ workerReg \in {<<>>, <<1>>}
    /\ ageCase = AgeNone /\ ageResult = "none"
    /\ StoreIdle /\ RingIdle /\ LookupIdle /\ ManifestIdle /\ CaseIdle

NextWorkerKey ==
    \/ StartCreate
    \/ CreateHelmRegister
    \/ CreateDataRegister
    \/ CreateKeyring
    \/ CreateManifest
    \/ \E kind \in {"rotate_worker_key", "rotate_worker_key_with_seed"},
          seed \in {ArkSeed, OtherSeed}, h \in HelmSeeds :
              StartRotateWorkerKey(kind, seed, h)
    \/ RotateWorkerKeyRead
    \/ RotateWorkerKeyUpdateManifest
    \/ RotateWorkerKeyUpdateRegister

SpecWorkerKey == InitWorkerKey /\ [][NextWorkerKey]_vars

\* ----------------------------------- ark_from_vault_address specification
InitArkFromVault ==
    /\ ArkIdle /\ StoreIdle /\ RingIdle /\ LookupIdle /\ ManifestIdle /\ CaseIdle

NextArkFromVault ==
    \/ \E counter \in PointerCounters, target \in PointerTargets :
           PointerPut(counter, target)
    \/ ArkFromVaultStart
    \/ \E ok \in BOOLEAN : ArkFromVaultCheck(ok)
    \/ \E ok \in BOOLEAN : ArkFromVaultGet(ok)

SpecArkFromVault == InitArkFromVault /\ [][NextArkFromVault]_vars

\* -------------------------------------------------- progress specification
InitProgress ==
    /\ ArkIdle /\ StoreIdle /\ RingIdle /\ LookupIdle /\ ManifestIdle /\ CaseIdle

NextProgress ==
    \/ ProgressNew
    \/ \E parent \in TaskIds : TaskChild(parent)
    \/ \E id \in TaskIds : TaskStart(id)
    \/ \E id \in TaskIds : TaskStop(id)
    \/ \E id \in TaskIds : TaskAdd(id, 1)
    \/ \E id \in TaskIds : TaskComplete(id)
    \/ \E id \in TaskIds : TaskFailure(id)
    \/ \E id \in TaskIds : TaskDrop(id)
    \/ OperationFails
    \/ ProgressDrop
    \/ SpawnedSend
    \/ ReporterRecv
    \/ ReporterStop

SpecProgress == InitProgress /\ [][NextProgress]_vars

\* The runtime keeps polling the tasks it holds: the reporter, also to cancel
\* it, and the spawned senders.
SpecProgressLive ==
    /\ InitProgress /\ [][NextProgress]_vars
    /\ WF_vars(ReporterRecv)
    /\ WF_vars(ReporterStop)
    /\ WF_vars(SpawnedSend)

\* ------------------------------------------------- lookup specification
InitLookup ==
    /\ ArkIdle /\ RingIdle /\ StoreIdle /\ LookupIdle /\ ManifestIdle /\ CaseIdle

NextLookup ==
    \/ \E t \in Tasks : LookupStart(t)
    \/ \E id \in 1..MaxFetches : LookupFetchAnswer(id)
    \/ \E id \in 1..MaxFetches : LookupFetchDone(id)
    \/ \E value \in StoreValues : LookupNetChange(value)
    \/ LookupInvalidate

SpecLookup == InitLookup /\ [][NextLookup]_vars

\* ------------------------------------ lookups and writes of one Core
\* Tasks of one Core look the address up while the Core itself writes it;
\* nobody else writes.
NextLookupWrite ==
    \/ \E t \in Tasks : LookupStart(t)
    \/ \E id \in 1..MaxFetches : LookupFetchAnswer(id)
    \/ \E id \in 1..MaxFetches : LookupFetchDone(id)
    \/ \E value \in StoreValues : ScratchpadPutIssue(value)
    \/ ScratchpadPutReturn

SpecLookupWrite == InitLookup /\ [][NextLookupWrite]_vars

\* -------------------------------------------------------------- observers
Range(s) == {s[i] : i \in 1..Len(s)}

IsPrefix(s, t) == Len(s) <= Len(t) /\ s = SubSeq(t, 1, Len(s))

\* the public keys the content of a manifest scratchpad is encrypted to
RecipientsOf(pad) ==
    IF pad.content.kind # "age" THEN {}
    ELSE {pad.content.stanzas[i].arg : i \in 1..Len(pad.content.stanzas)}

\* the Helm keys and the Data keys the registers have moved on from
ReplacedHelmKeys == {ArkSeed_helm_key(helmReg[i]) : i \in 1..(Len(helmReg) - 1)}
ReplacedDataKeys == {ArkSeed_data_key(dataReg[i]) : i \in 1..(Len(dataReg) - 1)}

\* the manifest scratchpads a reader finds and that are not retired
Live == {h \in HelmSeeds : manifests[h] # NoPad /\ ~is_retired(manifests[h])}

\* Manifest.retired_workers of the manifest scratchpad at Helm key h
RetiredWorkersAt(h) == Range(manifests[h].content.plain.retired_workers)

\* the retired-worker entries a reader finds in the non-retired manifests
LiveRetiredWorkers == UNION {RetiredWorkersAt(h) : h \in Live}

\* Core::get_data_keyring : the keyring decrypts under the current Data key
\* and holds one key per value of the register history
InSync ==
    /\ keyring # NoPad /\ dataReg # <<>>
    /\ keyring.data_encoding = DATA_KEYRING_SCRATCHPAD_ENCODING
    /\ default_decrypt(keyring.content, ArkSeed_data_key(Last(dataReg))) = "Ok"
    /\ keyring.content.plain.keys = {ArkSeed_data_key(dataReg[i]) : i \in 1..Len(dataReg)}

\* Scratchpad::counter of what an address holds, below every counter when it
\* holds nothing
RemoteCounter(pad) == IF pad = NoPad THEN -1 ELSE pad.counter

\* the recipients of the manifest at the current Helm address, in stanza order
ManifestRecipients ==
    LET st == CurrentManifestPad.content.stanzas IN
    [i \in 1..(Len(st) - 1) |-> st[i].arg]

HelmSteps == {"h_update_reg", "h_create", "h_retire"}

WorkerIds == 1..(MaxWorkerRotations + 2)

\* the writes of rotate_all_keys, in order
AllWrites ==
    <<"helm_register", "manifest_create", "manifest_retire", "manifest_update",
      "data_register", "data_keyring", "manifest_update">>

\* ------------------------------------------------------------------ claims

\* C1 (as stated): at every intermediate point of a Helm rotation, and in the
\* final state of one that failed after any of its writes, get_manifest
\* finds a non-retired manifest that the ArkSeed can decrypt.
C1_ReadableDuringHelmRotation ==
    (\/ pc \in HelmSteps
     \/ (op \in {"helm", "all"} /\ result = "err" /\ loc.failedAt \in HelmSteps))
        => get_manifest(ArkSeed).res = "Ok"

\* C2 (as stated): once creation has completed exactly one non-retired
\* manifest scratchpad exists in every state.
C2_ExactlyOneLive ==
    created => Cardinality(Live) = 1

\* C2 (amended): once creation has completed at least one non-retired manifest
\* scratchpad exists in every state, never more than one per Helm key the
\* register has held, and a Helm rotation that returns Ok leaves the manifest
\* of the new Helm key live and the one of the previous Helm key retired.
C2_AtLeastOneLive ==
    created =>
        /\ Live # {}
        /\ Live \subseteq Range(helmReg)
        /\ (op = "helm" /\ result = "ok")
               => (loc.helm \in Live /\ is_retired(manifests[loc.prevHelm]))

C2_StragglerAfterFailedRetire ==
    /\ created /\ result = "err" /\ loc.failedAt = "h_retire"
    /\ Cardinality(Live) = 2

\* C3: in a Helm rotation a manifest scratchpad becomes retired only when it
\* is the previous one and the new one has been created and is live, and
\* every step leaves at least one non-retired manifest.
C3_CreateBeforeRetire ==
    [][/\ \A h \in HelmSeeds :
            (is_retired(manifests'[h]) /\ ~is_retired(manifests[h]))
                => /\ h = loc.prevHelm /\ h # loc.helm
                   /\ loc.helm \in Live
                   /\ loc.helm \in Live'
                   /\ "manifest_create" \in Range(paid)
       /\ created => Live' # {}]_vars

C3_PreviousRetiredNewLive ==
    /\ created /\ op = "helm" /\ result = "ok"
    /\ \E h \in HelmSeeds : is_retired(manifests[h])
    /\ Last(helmReg) \in Live

\* C4 (as stated): in every reachable state the keyring scratchpad is
\* encrypted under the current Data public key and holds the Data secret key
\* of every value of the data register's history.
C4_KeyringInSync ==
    created => InSync

\* C4 (amended): every write of the keyring scratchpad leaves it encrypted
\* under the then-current Data public key with a key for every value of the
\* register history; it stays so until the data register is next updated;
\* a data rotation that returns Ok leaves it so.
C4_KeyringWrittenInSync ==
    [][/\ keyring' # keyring => InSync'
       /\ (InSync /\ dataReg' = dataReg) => InSync'
       /\ (op' = "data" /\ result' = "ok") => InSync']_vars

C4_KeyringRewritten ==
    /\ created /\ InSync
    /\ Len(dataReg) = 3 /\ keyring.counter = 2

\* C5: the Receipt returned with an error holds exactly one line item per
\* write the network accepted before the failure; a data rotation that
\* fails at the keyring update returns exactly the data-register cost.
C5_ReceiptListsCommittedWrites ==
    /\ result = "err" => receipt = paid
    /\ (op = "data" /\ result = "err" /\ loc.failedAt = "d_keyring")
           => receipt = <<"data_register">>

C5_FailedAtKeyring ==
    /\ op = "data" /\ result = "err" /\ loc.failedAt = "d_keyring"
    /\ Len(receipt) = 1

C7_HelmSurvivesLaterFailure ==
    (op = "all" /\ result = "err"
        /\ loc.failedAt \in {"w_update", "d_read", "d_update_reg", "d_keyring", "d_manifest"})
        => /\ Last(helmReg) = loc.helm /\ loc.helm # loc.prevHelm
           /\ get_manifest(ArkSeed).res = "Ok"
           /\ is_retired(manifests[loc.prevHelm])
           /\ Len(receipt) >= 3
           /\ SubSeq(receipt, 1, 3) = SubSeq(AllWrites, 1, 3)

C7_AllFailedInData ==
    /\ op = "all" /\ result = "err" /\ loc.failedAt = "d_keyring"
    /\ Len(receipt) = 5

\* C8: rotate_all_keys writes Helm, then Worker, then Data, each sub-rotation
\* starting after the previous one's writes, all costs in one Receipt.
C8_HelmWorkerDataOrder ==
    op = "all" =>
        /\ receipt = paid
        /\ IsPrefix(paid, AllWrites)
        /\ pc \in {"h_read", "h_update_reg"} => paid = <<>>
        /\ pc = "w_update" => paid = SubSeq(AllWrites, 1, 3)
        /\ pc \in {"d_read", "d_update_reg"} => paid = SubSeq(AllWrites, 1, 4)
        /\ result = "ok" => paid = AllWrites

C8_AllRotated ==
    /\ op = "all" /\ result = "ok"
    /\ Len(receipt) = 7

C10_EveryRecipientDecrypts ==
    ageCase.stage = "decrypted" =>
        IF public_key(ageCase.key) \in Range(ageCase.recipients)
        THEN ageResult = "Ok"
        ELSE ageResult = "NoMatchingKeys"

\* C11: on a created Ark derive_data_keyring(seed) holds exactly one key per
\* value of the data register's history, the key derived from each of them,
\* and a data rotation that returned Ok added exactly one value since it read
\* the register; so N successful rotations after creation give N + 1 keys.
C11_KeyringHoldsHistory ==
    created =>
        /\ Cardinality(derive_data_keyring(ArkSeed)) = Len(dataReg)
        /\ \A i \in 1..Len(dataReg) :
               ArkSeed_data_key(dataReg[i]) \in derive_data_keyring(ArkSeed)
        /\ (op = "data" /\ pc = "idle" /\ result = "ok")
               => Len(dataReg) = loc.newData

\* two data rotations returned Ok: three keys
C11_TwoRotationsDone ==
    /\ op = "data" /\ pc = "idle" /\ result = "ok"
    /\ Len(dataReg) = 3
    /\ Cardinality(derive_data_keyring(ArkSeed)) = 3

\* C12 (as stated): serializing the keyring built from the data register
\* history yields the Data keys in the order of the register history.
C12_SerializedInHistoryOrder ==
    ringCase.stage \in {"serialized", "deserialized"} =>
        ringCase.secret_keys =
            [i \in 1..Len(ringCase.history) |-> ArkSeed_data_key(ringCase.history[i])]

\* C13: when update_scratchpad has written and returned Ok, and is called
\* again with the same pad while the address still holds what it wrote, the
\* second call returns Ok with the same counter and issues no write, so the
\* two calls make exactly one network write.
C13_SecondUpdateWritesNothing ==
    \A c \in Cores :
        (/\ call[c].kind = "update_scratchpad" /\ call[c].round = 2
         /\ call[c].firstWrote
         /\ call[c].stage # "idle" /\ call[c].error # "network"
         /\ call[c].existing = call[c].first)
        => /\ call[c].stage = "done"
           /\ call[c].error = "none"
           /\ ~call[c].wrote
           /\ call[c].ret = call[c].first.counter

\* a second call that read the address from the network after the first wrote
C13_UpdatedTwice ==
    \E c \in Cores :
        /\ call[c].kind = "update_scratchpad" /\ call[c].round = 2
        /\ call[c].firstWrote /\ call[c].fromNet
        /\ call[c].stage = "done" /\ call[c].error = "none"
        /\ call[c].existing = call[c].first
        /\ net = call[c].first

\* C14 (as stated): an update of a scratchpad or pointer that is not
\* equivalent to what the address holds writes the counter
\* max(local counter, remote counter) + 1.
C14_WritesMaxPlusOne ==
    \A c \in Cores :
        (/\ call[c].kind \in {"update_scratchpad", "update_pointer"}
         /\ (call[c].stage = "begun" \/ call[c].wrote))
        => call[c].write.counter =
               (IF call[c].local.counter > call[c].existing.counter
                THEN call[c].local.counter ELSE call[c].existing.counter) + 1

\* C15 (as stated): when an update of a scratchpad or pointer has written
\* onto the state another update of a different value had read, and that
\* other update then issues its own write, the other update also returns Ok
\* and has written a counter above the first one's.
C15_LoserLandsAboveWinner ==
    \A c, d \in Cores :
        (/\ c # d
         /\ call[c].kind \in {"update_scratchpad", "update_pointer"}
         /\ call[d].kind = call[c].kind
         /\ call[c].local # call[d].local
         /\ call[d].applied /\ call[d].atWrite = call[c].existing
         /\ call[c].stage = "done" /\ call[c].wrote
         /\ call[c].atWrite = call[d].write)
        => /\ call[c].error = "none"
           /\ call[c].write.counter > call[d].write.counter

\* C16 (as stated): a create, update or retire that starts when the address
\* holds a retired scratchpad fails and issues no network write.
C16_RetiredIsTerminal ==
    \A c \in Cores :
        (/\ objKind = "scratchpad"
         /\ call[c].kind \in {"create_scratchpad", "update_scratchpad",
                              "danger_retire_scratchpad"}
         /\ is_retired(call[c].netAtBegin))
        => /\ call[c].stage = "done"
           /\ call[c].error # "none"
           /\ ~call[c].wrote

\* C17 (as stated): a create, update or make_immutable that starts when the
\* address holds an immutable pointer fails and issues no network write.
C17_ImmutableIsTerminal ==
    \A c \in Cores :
        (/\ objKind = "pointer"
         /\ call[c].kind \in {"create_pointer", "create_immutable_pointer",
                              "update_pointer"}
         /\ call[c].netAtBegin # NoPointer
         /\ ~pointer_is_mutable(call[c].netAtBegin))
        => /\ call[c].stage = "done"
           /\ call[c].error # "none"
           /\ ~call[c].wrote

\* C18 (as stated): a create whose lookup was answered fails with
\* `already exists` exactly when the address was populated when it started,
\* it then issues no write and adds no cost line, and a create that returns
\* Ok has added exactly one cost line.
C18_AlreadyExistsIffPopulated ==
    \A c \in Cores :
        (/\ call[c].kind \in CreateOps
         /\ ~(call[c].stage = "done" /\ call[c].error = "network" /\ ~call[c].wrote))
        => /\ (call[c].error = "already exists")
                  <=> (call[c].netAtBegin # Absent(objKind))
           /\ call[c].error = "already exists"
                  => (call[c].stage = "done" /\ ~call[c].wrote /\ call[c].receipt = 0)
           /\ (call[c].stage = "done" /\ call[c].error = "none")
                  => call[c].receipt = 1

\* C19 (as stated): while a write is in flight, and after it has returned,
\* the writing Core's cache holds no entry for the address.
C19_InvalidatedBeforeAndAfter ==
    \A c \in Cores :
        /\ call[c].stage = "inflight" => ~cache[c].hit
        /\ (call[c].stage = "done" /\ call[c].wrote) => ~cache[c].hit

\* C20 (as stated): after a read that found the address absent, the reading
\* Core's cache holds no entry for the address.
C20_NotFoundLeavesNoEntry ==
    \A c \in Cores :
        (/\ call[c].kind \in ReadOps
         /\ call[c].stage = "done" /\ call[c].error = "not found")
        => ~cache[c].hit

\* C21 (as stated): when the put of a write operation has failed and the
\* error has been returned, the writing Core's cache holds no entry for the
\* address.
C21_InvalidatedOnWriteError ==
    \A c \in Cores :
        (call[c].stage = "done" /\ call[c].wrote /\ ~call[c].applied)
        => ~cache[c].hit

\* C29 (as stated): an update of a register with the value the address holds,
\* or of a pointer with the target and counter the address holds, returns Ok
\* without a network write and without a cost line.
C29_EquivalentUpdateWritesNothing ==
    \A c \in Cores :
        (/\ call[c].kind \in {"update_register", "update_pointer"}
         /\ call[c].existing # Absent(objKind)
         /\ call[c].local = call[c].existing)
        => /\ call[c].stage = "done"
           /\ call[c].error = "none"
           /\ ~call[c].wrote
           /\ call[c].receipt = 0

\* C22: at most one upstream fetch of the address is in flight, every lookup
\* that missed the cache waits for it, and all lookups that waited for the
\* same fetch got the same answer.
C22_MissedReadsCoalesce ==
    /\ Cardinality(fetch.inflight) <= 1
    /\ \A t \in Tasks : lookup[t].stage = "waiting" => lookup[t].fetch \in fetch.inflight
    /\ \A t, u \in Tasks :
          (/\ lookup[t].stage = "done" /\ lookup[u].stage = "done"
           /\ lookup[t].fetch # 0 /\ lookup[t].fetch = lookup[u].fetch)
          => (lookup[t].res = lookup[u].res /\ lookup[t].value = lookup[u].value)

\* three overlapping lookups were answered by one fetch
C22_ThreeSharedOneFetch ==
    /\ \A t \in Tasks : lookup[t].stage = "done" /\ lookup[t].fetch = 1
                        /\ lookup[t].res = "Ok"
    /\ fetch.started = 1

\* C25: a Data, Helm or All rotation called with an ArkSeed whose public key
\* is not the ArkAddress never gets past its first step, which fails at the
\* seed verification, before any read; it writes nothing and its Receipt
\* stays empty.
C25_WrongSeedFailsFirst ==
    (op \in {"data", "helm", "all"} /\ public_key(loc.seed) # ArkAddress)
    => /\ pc \in {"idle", FirstStep(op)}
       /\ receipt = <<>> /\ paid = <<>>
       /\ pc = "idle" => (result = "err" /\ loc.failedAt = "verify")

\* a Helm rotation with a foreign seed was refused
C25_HelmRefused ==
    /\ op = "helm" /\ loc.seed = OtherSeed
    /\ pc = "idle" /\ result = "err" /\ loc.failedAt = "verify"

C23_StaleHelmKeyRefused ==
    op = "update_manifest" =>
        /\ loc.helm # Last(helmReg)
               => /\ result = "err" /\ loc.failedAt = "verify_helm"
                  /\ receipt = <<>> /\ paid = <<>>
        /\ paid # <<>> => loc.helm = Last(helmReg)

\* update_manifest was refused for the previous Helm key while its manifest
\* was still live
C23_PreviousKeyRefused ==
    /\ op = "update_manifest" /\ result = "err"
    /\ loc.helm # Last(helmReg)
    /\ loc.helm \in Live

\* C24: retire_manifest called with the Helm key the helm register resolves
\* to refuses without a write, and the manifest scratchpad at the current
\* Helm key's address is never retired.
C24_CurrentManifestNeverRetired ==
    /\ helmReg # <<>> => ~is_retired(CurrentManifestPad)
    /\ (op = "retire_manifest" /\ loc.helm = Last(helmReg))
           => /\ result = "err" /\ loc.failedAt = "still_active"
              /\ receipt = <<>> /\ paid = <<>>

\* retire_manifest was refused for the current Helm key after a Helm rotation
C24_CurrentKeyRefused ==
    /\ op = "retire_manifest" /\ result = "err"
    /\ Len(helmReg) >= 2 /\ loc.helm = Last(helmReg)
    /\ Last(helmReg) \in Live

\* C26 (as stated): after update_worker(new_pk) the authorized worker is
\* new_pk; when the previous authorized worker differs from new_pk,
\* retired_workers holds an entry for it; when it equals new_pk,
\* retired_workers is as it was.
C26_PreviousWorkerRetired ==
    manifestCase.calls >= 1 =>
        LET before == manifestCase.before
            after == manifestCase.after
        IN
        /\ after.authorized_worker = manifestCase.new_worker
        /\ before.authorized_worker # manifestCase.new_worker
               => \E i \in 1..Len(after.retired_workers) :
                      after.retired_workers[i].inner = before.authorized_worker
        /\ before.authorized_worker = manifestCase.new_worker
               => after.retired_workers = before.retired_workers

C28_WritesOnlyManifest ==
    op \in {"rotate_worker_key", "rotate_worker_key_with_seed"}
        => \A i \in 1..Len(paid) : paid[i] = "manifest_update"

\* C31 (as stated): ark_from_vault_address returns None for an absent
\* pointer, fails for a mutable one and in every other case returns the
\* pointer's target as the Ark address (network calls that answer).
C31_ThreeOutcomes ==
    (vaultCase.pc = "done" /\ vaultCase.failed # "network") =>
        IF ~vaultCase.seen.exists THEN vaultCase.res = "None"
        ELSE IF pointer_is_mutable(vaultCase.got) THEN vaultCase.res = "Err"
        ELSE /\ vaultCase.res = "Some"
             /\ vaultCase.address = vaultCase.got.target.owner

\* C31 (amended): None for an absent pointer; failure for a mutable pointer
\* and for a final pointer whose target is not a pointer address; otherwise
\* the owner of the target pointer address; an address is never taken from a
\* mutable pointer.
C31_FourOutcomes ==
    /\ (vaultCase.pc = "done" /\ vaultCase.failed # "network") =>
           IF ~vaultCase.seen.exists THEN vaultCase.res = "None"
           ELSE IF pointer_is_mutable(vaultCase.got) THEN vaultCase.res = "Err"
           ELSE IF vaultCase.got.target.kind # "PointerAddress" THEN vaultCase.res = "Err"
           ELSE /\ vaultCase.res = "Some"
                /\ vaultCase.address = vaultCase.got.target.owner
    /\ vaultCase.res = "Some" =>
           /\ vaultCase.got.exists
           /\ vaultCase.got.counter = POINTER_EOL_COUNTER
           /\ vaultCase.got.target = [kind |-> "PointerAddress", owner |-> vaultCase.address]
    /\ vaultCase.res = "None" => ~vaultCase.seen.exists /\ ~vaultCase.got.exists

\* a pointer that was mutable when its existence was checked and final when
\* it was read has given its address; a mutable one has been refused
C31_FinalPointerTrusted ==
    /\ vaultCase.res = "Some"
    /\ vaultCase.address = OtherArkAddress
    /\ pointer_is_mutable(vaultCase.seen)

\* C32: a vault modification with an empty request returns Ok with an empty
\* Receipt in the step that starts it: it reaches no network call, and the
\* manifest scratchpads and their counters are what they were.
C32_EmptyPatchIsNoOp ==
    [][(pc = "idle" /\ op' = "vault_modify"
            /\ loc'.request = ModificationRequest_build(TRUE, TRUE))
          => /\ pc' = "idle"
             /\ result' = "ok"
             /\ receipt' = <<>> /\ paid' = <<>>
             /\ manifests' = manifests
             /\ UNCHANGED <<helmReg, dataReg, keyring, vaultPointers>>]_vars

\* an empty request on a vault the manifest lists has returned
C32_EmptyPatchReturned ==
    /\ op = "vault_modify" /\ loc.request = ModificationRequest_build(TRUE, TRUE)
    /\ result = "ok" /\ receipt = <<>>
    /\ CurrentManifestPad.content.kind = "age"
    /\ has_vault(CurrentManifestPad.content.plain, loc.vault)

\* C38 (as stated): when no operation is running and ark_from_vault_address(v)
\* returns the Ark's address, a live manifest of the Ark lists vault v.
C38_ResolvedVaultIsListed ==
    \A v \in VaultKeys :
        (/\ pc = "idle"
         /\ ark_from_vault_address(VaultArkPointer(v)).res = "Some"
         /\ ark_from_vault_address(VaultArkPointer(v)).address = ArkAddress)
            => \E h \in Live : has_vault(manifests[h].content.plain, v)

\* C40: when a Helm rotation (alone or in rotate_all_keys) has returned Ok, no
\* replaced Helm key is a recipient of the manifest at the current Helm key's
\* address and none decrypts it; the same for the replaced Data keys when a
\* Data rotation has returned Ok.
C40_ReplacedKeysLockedOut ==
    (pc = "idle" /\ result = "ok") =>
        /\ op \in {"helm", "all"} =>
               \A k \in ReplacedHelmKeys :
                   /\ public_key(k) \notin RecipientsOf(CurrentManifestPad)
                   /\ get_manifest(k).res # "Ok"
        /\ op \in {"data", "all"} =>
               \A k \in ReplacedDataKeys :
                   /\ public_key(k) \notin RecipientsOf(CurrentManifestPad)
                   /\ get_manifest(k).res # "Ok"

\* a Helm rotation and then a Data rotation have returned Ok, and the current
\* keys of both kinds decrypt the manifest the replaced ones are locked out of
C40_BothKindsReplaced ==
    /\ pc = "idle" /\ result = "ok" /\ op = "data"
    /\ Len(helmReg) >= 2 /\ Len(dataReg) >= 2
    /\ get_manifest(ArkSeed_helm_key(Last(helmReg))).res = "Ok"
    /\ get_manifest(ArkSeed_data_key(Last(dataReg))).res = "Ok"
    /\ public_key(ArkSeed_data_key(dataReg[1])) \notin RecipientsOf(CurrentManifestPad)

\* C35 (as stated): a lookup that began after a write of this Core had
\* returned, and that was answered from the cache entry, did not get a pad
\* older than the one written.
C35_NoPreWriteValueFromCache ==
    \A t \in Tasks :
        (lookup[t].stage = "done" /\ lookup[t].res = "Ok" /\ lookup[t].fetch = 0)
            => lookup[t].value.counter >= lookup[t].floor

\* C33: the events one Task emitted (start, stop, += n, complete, failure) are
\* applied to the published Report in the order of their emission, however
\* full the event channel was when they were sent.
C33_AppliedInEmissionOrder ==
    progressCase # ProgressNone =>
        \A i, j \in DOMAIN progressCase.applied :
            (/\ i < j
             /\ progressCase.applied[i].kind # "Add"
             /\ progressCase.applied[j].kind # "Add"
             /\ progressCase.applied[i].by = progressCase.applied[j].by)
                => progressCase.applied[i].seq < progressCase.applied[j].seq

\* C34: once the root Task is gone the reporter ends, whichever children or
\* Progress handles are still held; dropping the Progress or a child Task
\* leaves the other Tasks and the operation's outcome as they were, and a
\* held Task can always emit its next event.
C34_RootDropEndsReporter ==
    /\ (progressCase # ProgressNone /\ progressCase.handle[1] = "gone")
           ~> (progressCase # ProgressNone /\ progressCase.reporter = "stopped")
    /\ [][(ProgressDrop \/ \E child \in TaskIds : TaskDrop(child))
          => /\ progressCase'.outcome = progressCase.outcome
             /\ progressCase'.reporter = progressCase.reporter
             /\ \A id \in TaskIds :
                    progressCase.handle[id] = "held"
                        => \/ progressCase'.handle[id] = "held"
                           \/ id # 1 /\ progressCase'.ended[id] = "dropped"
             /\ \A id \in TaskIds :
                    (progressCase'.handle[id] = "held" /\ CanEmit')
                        => (ENABLED TaskStart(id))']_vars

\* C34 happens: the root Task is gone while a child Task and the Progress are
\* still held, and the reporter has ended.
C34_ReporterEndedWithChildHeld ==
    /\ progressCase # ProgressNone
    /\ progressCase.handle[1] = "gone"
    /\ \E id \in TaskIds : progressCase.handle[id] = "held"
    /\ progressCase.progress = "held"
    /\ progressCase.reporter = "stopped"

\* C37: a task shown with status Success or Failure in the published Report
\* keeps that status in every later Report.
C37_TerminalStatusStays ==
    [][progressCase # ProgressNone =>
          \A id \in TaskIds :
              (/\ progressCase.published[id].present
               /\ progressCase.published[id].status \in {"SUCCESS", "FAILURE"})
                  => progressCase'.published[id].status
                         = progressCase.published[id].status]_vars

\* C36: after an operation has completed its children and its root Task and
\* returned Ok, the published Report comes to show each of these tasks with
\* status Success and with all the increments the task emitted, as long as
\* the Progress is held.
C36_SuccessIsShown ==
    (/\ progressCase # ProgressNone
     /\ progressCase.progress = "held"
     /\ progressCase.outcome = "ok"
     /\ \A id \in TaskIds : progressCase.ended[id] \in {"none", "complete"})
        ~> (/\ progressCase # ProgressNone
            /\ \/ progressCase.progress = "dropped"
               \/ \A id \in TaskIds :
                   progressCase.ended[id] = "complete"
                       => /\ progressCase.published[id].present
                          /\ progressCase.published[id].status = "SUCCESS"
                          /\ progressCase.published[id].completed
                                 = Cardinality({i \in DOMAIN progressCase.emitted :
                                       /\ progressCase.emitted[i].kind = "Progress"
                                       /\ progressCase.emitted[i].task_id = id}))

\* C39: after an operation has returned an error, the published Report comes
\* to show one of its tasks with status Failure and none with status Active
\* or Waiting, as long as the Progress is held.
C39_FailureIsShown ==
    (/\ progressCase # ProgressNone
     /\ progressCase.progress = "held"
     /\ progressCase.outcome = "err")
        ~> (/\ progressCase # ProgressNone
            /\ \/ progressCase.progress = "dropped"
               \/ /\ \E id \in TaskIds : /\ progressCase.published[id].present
                                         /\ progressCase.published[id].status = "FAILURE"
                  /\ \A id \in TaskIds :
                         progressCase.published[id].present
                             => progressCase.published[id].status
                                    \in {"SUCCESS", "FAILURE"})

====
